---- MODULE Spec2Model ----
(***************************************************************************)
(* State-machine model of the card pipeline of Anki-Card-Writing-Assistant: *)
(* the cloze rewriter, the field builder, the card generator and its batch  *)
(* driver (src/src/core/card_generator.py), the template registry           *)
(* (src/src/templates/template_manager.py) and the unified exporter         *)
(* (src/src/core/unified_exporter.py).                                      *)
(*                                                                          *)
(* Text is a sequence of one-character strings, so that substring search,   *)
(* replacement and formatting are computed character by character.  Names   *)
(* (template, field, deck, format names) are TLA+ strings.                  *)
(***************************************************************************)
EXTENDS Integers, Sequences, FiniteSets, TLC

VARIABLES
    templates,      \* TemplateManager.templates: name -> AnkiTemplate
    built,          \* the last build_fields call: <<>> or <<[arguments, fields]>>
    synth,          \* the last generate_cards call: <<>> or <<[arguments, outcome]>>
    b_contents,     \* generate_batch: argument contents, the chunks
    b_config,       \* generate_batch: argument config
    b_i,            \* generate_batch: index of the chunk the loop is at (from 1)
    b_all_cards,    \* generate_batch: all_cards
    b_log,          \* what generate_cards returned or raised, per chunk so far
    b_pc,           \* generate_batch: "idle", "loop", "returned" or "raised"
    cz_content,     \* process_cloze_content: argument content
    cz_clozes,      \* process_cloze_content: argument clozes
    cz_out,         \* process_cloze_content: the returned text
    cz_pc,          \* "args" before the call, "returned" after it
    has_tm,         \* UnifiedExporter: whether template_manager was given
    deck_ids,       \* UnifiedExporter.deck_ids: deck name -> id
    model_cache,    \* ModelFactory._model_cache: model name -> Model
    now,            \* the wall clock
    pkg,            \* the last export_to_apkg call: <<>> or <<[arguments, result]>>
    id_log,         \* the direct get_model_id calls so far, with their results
    e_pc,           \* export_multiple_formats: "idle", "loop", "returned" or "raised"
    e_cards,        \* export_multiple_formats: argument cards
    e_original_content, \* export_multiple_formats: original_content, <<>> for None
    e_formats,      \* export_multiple_formats: argument formats
    e_template_name,\* export_multiple_formats: template_name, <<>> for None
    e_timestamp,    \* export_multiple_formats: timestamp
    e_started,      \* the clock when the call began
    e_i,            \* export_multiple_formats: index of the format the loop is at
    e_export_paths, \* export_multiple_formats: export_paths
    e_files,        \* the files the call has written, in order
    e_log,          \* "written", "raised" or "skipped", per format gone through
    f_pc,           \* generate_from_file: "idle", "batch", "returned" or "raised"
    f_path,         \* generate_from_file: the extension of file_path
    f_text,         \* generate_from_file: the text of the file
    f_cards,        \* generate_from_file: the returned list
    f_error,        \* generate_from_file: the raised error, "" for none
    b_inflight,     \* generate_batch: the chunks whose generate_cards call is awaited
    b_started,      \* generate_batch: the chunks whose call was started, in order
    summary,        \* the last get_export_summary call: <<>> or <<[cards, result]>>
    json_out,       \* the last direct export_to_json call: <<>> or <<[arguments, result]>>
    nl_value,       \* normalize_newlines_for_anki: the value handed in, <<>> for None
    nl_out,         \* normalize_newlines_for_anki: <<>> or <<the returned text>>
    m_pc,           \* merge_card_data: "idle" or "returned"
    m_heap,         \* the dictionaries and strings of the process, by address
    m_before,       \* the heap when merge_card_data was called
    m_sources,      \* merge_card_data: per source, the addresses of its cards
    m_deck_name,    \* merge_card_data: argument merged_deck_name
    m_merged,       \* merge_card_data: the addresses of the returned cards
    l_pc,           \* generate_structured: "idle", "request", "awaiting", "returned" or "raised"
    l_i,            \* generate_structured: the loop variable i
    l_sent,         \* the completion requests the call has issued
    l_log,          \* the answers to the requests of the call, in order
    l_result,       \* "object" when the call returned, the error when it raised
    l_calls,        \* the results of the calls that ended, in order
    rc_pc,          \* each racing call: "idle", "check", "store", "read" or "done"
    rc_k,           \* each racing call: the deck it is at
    rc_decks,       \* each racing call: its deck names, in order
    rc_got,         \* each racing call: what _get_deck_id returned, <<id>> or <<>> for KeyError
    rc_ids,         \* the deck_ids of the exporter the racing calls share
    rc_before,      \* that cache when the calls began
    rc_stores,      \* the item assignments the racing calls made
    x_now,          \* the clock the two export calls read
    x_call,         \* the two export_multiple_formats calls: position, arguments, timestamp and caches
    disk,           \* the output directory: path -> the content of the file and the call that wrote it
    x_log           \* the writes of the two calls, in order

regVars == <<templates>>
bfVars  == <<built>>
synVars == <<synth>>
batVars == <<b_contents, b_config, b_i, b_all_cards, b_log, b_pc>>
czVars  == <<cz_content, cz_clozes, cz_out, cz_pc>>
expVars == <<has_tm, deck_ids, model_cache, now, pkg, id_log>>
emfVars == <<e_pc, e_cards, e_original_content, e_formats, e_template_name, e_timestamp, e_started, e_i,
            e_export_paths, e_files, e_log>>
srcVars == <<f_pc, f_path, f_text, f_cards, f_error>>
seqVars == <<b_inflight, b_started>>
outVars == <<summary, json_out>>
nlVars == <<nl_value, nl_out>>
mrgVars == <<m_pc, m_heap, m_before, m_sources, m_deck_name, m_merged>>
llmVars == <<l_pc, l_i, l_sent, l_log, l_result, l_calls>>
rcVars == <<rc_pc, rc_k, rc_decks, rc_got, rc_ids, rc_before, rc_stores>>
xcVars == <<x_now, x_call, disk, x_log>>
finalVars == <<nlVars, mrgVars, llmVars, rcVars, xcVars>>
restNl == <<srcVars, seqVars, outVars, mrgVars, llmVars, rcVars, xcVars>>
restMrg == <<srcVars, seqVars, outVars, nlVars, llmVars, rcVars, xcVars>>
restLlm == <<srcVars, seqVars, outVars, nlVars, mrgVars, rcVars, xcVars>>
restRc == <<srcVars, seqVars, outVars, nlVars, mrgVars, llmVars, xcVars>>
restXc == <<srcVars, seqVars, outVars, nlVars, mrgVars, llmVars, rcVars>>
laterVars == <<srcVars, seqVars, outVars, finalVars>>
vars    == <<templates, built, synth, b_contents, b_config, b_i, b_all_cards, b_log,
            b_pc, cz_content, cz_clozes, cz_out, cz_pc, has_tm, deck_ids,
            model_cache, now, pkg, id_log, e_pc, e_cards, e_original_content,
            e_formats, e_template_name, e_timestamp, e_started, e_i, e_export_paths,
            e_files, e_log, f_pc, f_path, f_text, f_cards, f_error, b_inflight,
            b_started, summary, json_out, nl_value, nl_out, m_pc, m_heap, m_before,
            m_sources, m_deck_name, m_merged, l_pc, l_i, l_sent, l_log, l_result,
            l_calls, rc_pc, rc_k, rc_decks, rc_got, rc_ids, rc_before, rc_stores,
            x_now, x_call, disk, x_log>>

-----------------------------------------------------------------------------
(* Text helpers: Python str operations on sequences of characters.          *)

\* s[i:i+len(p)] == p, with i a 1-based index
MatchAt(s, p, i) ==
    /\ i >= 1
    /\ i + Len(p) - 1 <= Len(s)
    /\ \A k \in 1..Len(p) : s[i + k - 1] = p[k]

\* str.find: the 1-based index of the first occurrence of p in s from index
\* `from` on, 0 when there is none
FindFrom(s, p, from) ==
    LET hits == {i \in from..(Len(s) + 1) : MatchAt(s, p, i)}
    IN  IF hits = {} THEN 0 ELSE CHOOSE i \in hits : \A j \in hits : i <= j

Find(s, p) == FindFrom(s, p, 1)

\* p in s
Contains(s, p) == Find(s, p) # 0

\* str.replace(old, new, 1): replaces the first occurrence only
ReplaceFirst(s, old, new) ==
    LET i == Find(s, old)
    IN  IF i = 0 THEN s
        ELSE SubSeq(s, 1, i - 1) \o new \o SubSeq(s, i + Len(old), Len(s))

\* str.replace(old, new): replaces every occurrence, left to right
RECURSIVE ReplaceAll(_, _, _)
ReplaceAll(s, old, new) ==
    LET i == Find(s, old)
    IN  IF i = 0 \/ old = <<>> THEN s
        ELSE SubSeq(s, 1, i - 1) \o new
             \o ReplaceAll(SubSeq(s, i + Len(old), Len(s)), old, new)

\* sep.join(parts)
RECURSIVE Join(_, _)
Join(parts, sep) ==
    IF parts = <<>> THEN <<>>
    ELSE IF Len(parts) = 1 THEN parts[1]
    ELSE parts[1] \o sep \o Join(Tail(parts), sep)

DigitChars == <<"0", "1", "2", "3", "4", "5", "6", "7", "8", "9">>

\* str(n) for n >= 0
RECURSIVE IntStr(_)
IntStr(n) ==
    IF n < 10 THEN <<DigitChars[n + 1]>>
    ELSE IntStr(n \div 10) \o <<DigitChars[(n % 10) + 1]>>

IsDigit(c) == \E k \in 1..10 : DigitChars[k] = c

\* the elements of a sequence
Range(s) == {s[k] : k \in 1..Len(s)}

\* all sequences over S of length n, and of length lo..hi
RECURSIVE SeqsOfLen(_, _)
SeqsOfLen(S, n) ==
    IF n = 0 THEN {<<>>}
    ELSE {Append(s, x) : s \in SeqsOfLen(S, n - 1), x \in S}

SeqsOf(S, lo, hi) == UNION {SeqsOfLen(S, n) : n \in lo..hi}

-----------------------------------------------------------------------------
(* ClozeProcessor.process_cloze_content                                     *)

\* x.get("position", 0); an optional integer is <<>> when absent, <<p>> when set
PositionKey(cloze) == IF cloze.position = <<>> THEN 0 ELSE cloze.position[1]

\* a rewriter that takes the spans as they come
SortedByPositionDesc_InputOrder(clozes) == clozes

\* sorted(clozes, key=position, reverse=True): a stable sort, elements with
\* equal keys keep their input order
RECURSIVE SortedByPositionDesc(_)
SortedByPositionDesc(clozes) ==
    IF clozes = <<>> THEN <<>>
    ELSE LET n    == Len(clozes)
             last == clozes[n]
             rest == SortedByPositionDesc(SubSeq(clozes, 1, n - 1))
             \* last goes after every element whose key is >= its own
             keep == {k \in 1..Len(rest) : PositionKey(rest[k]) >= PositionKey(last)}
             cut  == IF keep = {} THEN 0
                     ELSE CHOOSE k \in keep : \A j \in keep : j <= k
         IN  SubSeq(rest, 1, cut) \o <<last>> \o SubSeq(rest, cut + 1, Len(rest))

\* f"{{c{id}::{text}::{hint}}}" if hint else f"{{c{id}::{text}}}"
ClozeFormat(cloze) ==
    IF cloze.hint # <<>>
    THEN <<"{", "{", "c">> \o IntStr(cloze.id) \o <<":", ":">> \o cloze.text
         \o <<":", ":">> \o cloze.hint \o <<"}", "}">>
    ELSE <<"{", "{", "c">> \o IntStr(cloze.id) \o <<":", ":">> \o cloze.text
         \o <<"}", "}">>

\* one iteration of the loop: the first occurrence of the span text in the
\* text produced so far is replaced by the marker
ApplyCloze(processed, cloze) == ReplaceFirst(processed, cloze.text, ClozeFormat(cloze))

RECURSIVE ApplyClozes(_, _)
ApplyClozes(processed, sorted) ==
    IF sorted = <<>> THEN processed
    ELSE ApplyClozes(ApplyCloze(processed, Head(sorted)), Tail(sorted))

process_cloze_content(content, clozes) ==
    IF clozes = <<>> THEN content
    ELSE ApplyClozes(content, SortedByPositionDesc(clozes))

-----------------------------------------------------------------------------
(* Cloze rewriter on its own: the arguments are drawn in the initial state, *)
(* the single step is the call.                                             *)

MaxLen   == 3       \* longest content
MaxSpans == 2       \* most spans in one call
CzChars  == {"a", "c"}
CzHints  == {<<>>, <<"c">>}

\* the non-empty substrings of content
SubstringsOf(content) ==
    {SubSeq(content, i, j) : i \in 1..Len(content), j \in 1..Len(content)} \ {<<>>}

\* spans as the collaborator returns them: a text occurring verbatim in the
\* content, an id, an optional hint, and, when a position is given, the
\* 0-based offset of an occurrence of the text
ClozesOf(content) ==
    LET unplaced ==
            {[id |-> d, text |-> t, hint |-> h, position |-> <<>>] :
                d \in 1..MaxSpans, t \in SubstringsOf(content), h \in CzHints}
        placed(o) ==
            {[id |-> d, text |-> SubSeq(content, o, e), hint |-> h,
              position |-> <<o - 1>>] :
                d \in 1..MaxSpans, e \in o..Len(content), h \in CzHints}
    IN  unplaced \cup UNION {placed(o) : o \in 1..Len(content)}

CzInit ==
    /\ cz_content \in SeqsOf(CzChars, 1, MaxLen)
    /\ cz_clozes \in SeqsOf(ClozesOf(cz_content), 0, MaxSpans)
    /\ cz_out = <<>>
    /\ cz_pc = "args"

CzIdle ==
    /\ cz_content = <<>>
    /\ cz_clozes = <<>>
    /\ cz_out = <<>>
    /\ cz_pc = "idle"

ProcessClozeContent ==
    /\ cz_pc = "args"
    /\ cz_pc' = "returned"
    /\ cz_out' = process_cloze_content(cz_content, cz_clozes)
    /\ UNCHANGED <<cz_content, cz_clozes>>

-----------------------------------------------------------------------------
(* Reading the markers back                                                 *)

\* the index just after the digits that start at j
RECURSIVE DigitsEnd(_, _)
DigitsEnd(s, j) == IF j <= Len(s) /\ IsDigit(s[j]) THEN DigitsEnd(s, j + 1) ELSE j

\* a marker {{c<digits>:: opens at i: the index of the first character of its
\* body, 0 when no marker opens at i
MarkerBodyAt(s, i) ==
    IF ~MatchAt(s, <<"{", "{", "c">>, i) THEN 0
    ELSE LET e == DigitsEnd(s, i + 3)
         IN  IF e > i + 3 /\ MatchAt(s, <<":", ":">>, e) THEN e + 2 ELSE 0

\* a complete marker opens at i: opened, and closed by a later }}
MarkerAt(s, i) ==
    /\ MarkerBodyAt(s, i) # 0
    /\ FindFrom(s, <<"}", "}">>, MarkerBodyAt(s, i)) # 0

\* the number of markers in s
MarkerCount(s) == Cardinality({i \in 1..Len(s) : MarkerAt(s, i)})

\* the number of markers in s that carry the id n
MarkerCountOfId(s, n) ==
    Cardinality({i \in 1..Len(s) :
        MarkerAt(s, i) /\ MatchAt(s, <<"{", "{", "c">> \o IntStr(n) \o <<":", ":">>, i)})

\* s from index i on, every marker replaced by its text (the body up to the
\* hint separator)
RECURSIVE StripFrom(_, _)
StripFrom(s, i) ==
    IF i > Len(s) THEN <<>>
    ELSE IF MarkerAt(s, i)
    THEN LET b     == MarkerBodyAt(s, i)
             close == FindFrom(s, <<"}", "}">>, b)
             body  == SubSeq(s, b, close - 1)
             sep   == Find(body, <<":", ":">>)
             text  == IF sep = 0 THEN body ELSE SubSeq(body, 1, sep - 1)
         IN  text \o StripFrom(s, close + 2)
    ELSE <<s[i]>> \o StripFrom(s, i + 1)

StripMarkers(s) == StripFrom(s, 1)

\* the spans can be laid on pairwise disjoint occurrences of their texts
NonOverlapping(content, clozes) ==
    \E at \in [DOMAIN clozes -> 1..Len(content)] :
        /\ \A k \in DOMAIN clozes : MatchAt(content, clozes[k].text, at[k])
        /\ \A k, m \in DOMAIN clozes :
              k < m => \/ at[k] + Len(clozes[k].text) <= at[m]
                       \/ at[m] + Len(clozes[m].text) <= at[k]

\* C4 (as claimed). Cloze round-trip: for non-overlapping spans that occur
\* verbatim in the content, the rewritten text holds exactly one marker per
\* span and, every marker replaced by its span text, is the content again.
C4_ClozeRoundTrip ==
    (cz_pc = "returned" /\ NonOverlapping(cz_content, cz_clozes)) =>
        /\ MarkerCount(cz_out) = Len(cz_clozes)
        /\ StripMarkers(cz_out) = cz_content

-----------------------------------------------------------------------------
(* Template registry: TemplateManager.  A template keeps its name, its      *)
(* declared fields (name and default value, in order) and its cloze flag;   *)
(* the render strings and the css are opaque to the pipeline.               *)

\* d.get(k, default) on a mapping, getattr(o, k, default) on an object
Get(d, k, default) == IF k \in DOMAIN d THEN d[k] ELSE default

\* a mapping with one more entry, as d[k] = v leaves it
Put(d, k, v) == [x \in DOMAIN d \cup {k} |-> IF x = k THEN v ELSE d[x]]

EmptyMap == [x \in {} |-> {}]

TemplateField(name, default_value) == [name |-> name, default_value |-> default_value]

AnkiTemplate(name, fields, is_cloze) ==
    [name |-> name, fields |-> fields, is_cloze |-> is_cloze]

\* the template built by _load_quizify_templates
QuizifyTemplate ==
    AnkiTemplate("Quizify",
        <<TemplateField("Front", <<>>), TemplateField("Back", <<>>),
          TemplateField("Deck", <<>>), TemplateField("Tags", <<>>)>>,
        FALSE)

\* the template built by _load_enhanced_cloze_templates
EnhancedClozeTemplate ==
    AnkiTemplate("Enhanced Cloze",
        <<TemplateField("Content", <<>>), TemplateField("Back Extra", <<>>),
          TemplateField("Deck", <<>>), TemplateField("Tags", <<>>),
          TemplateField("Cloze99", <<>>)>>,
        TRUE)

\* _load_templates: each built-in template is registered when its directory
\* exists, and skipped with a warning when it does not
LoadTemplates(quizify_dir, cloze_dir) ==
    LET t1 == IF quizify_dir THEN Put(EmptyMap, "Quizify", QuizifyTemplate) ELSE EmptyMap
    IN  IF cloze_dir THEN Put(t1, "Enhanced Cloze", EnhancedClozeTemplate) ELSE t1

RegInit == \E quizify_dir, cloze_dir \in BOOLEAN :
               templates = LoadTemplates(quizify_dir, cloze_dir)

\* get_template: templates.get(name); None is the record [none |-> TRUE]
NoTemplate == [none |-> TRUE]

get_template(name) == Get(templates, name, NoTemplate)

\* `if not template`
IsNone(t) == "none" \in DOMAIN t

\* the templates a caller registers in the model
CustomTemplates ==
    { AnkiTemplate("Quizify Enhanced Cloze",
          <<TemplateField("Content", <<>>), TemplateField("Back Extra", <<>>),
            TemplateField("Deck", <<>>), TemplateField("Tags", <<>>),
            TemplateField("Cloze99", <<>>)>>,
          TRUE),
      AnkiTemplate("Cloze",
          <<TemplateField("Text", <<>>), TemplateField("Back Extra", <<>>),
            TemplateField("Deck", <<>>), TemplateField("Tags", <<>>)>>,
          TRUE),
      AnkiTemplate("Basic",
          <<TemplateField("Front", <<>>), TemplateField("Back", <<>>)>>,
          FALSE),
      AnkiTemplate("Quizify",
          <<TemplateField("Front", <<>>), TemplateField("Back", <<>>),
            TemplateField("Deck", <<>>), TemplateField("Tags", <<>>),
            TemplateField("Extra", <<"x">>)>>,
          FALSE) }

\* create_custom_template: self.templates[name] = template
create_custom_template(t) ==
    /\ templates' = Put(templates, t.name, t)

\* import_template: the template read from the file is registered under its
\* name; a file that cannot be read or parsed raises before the registry is
\* touched
import_template(t, readable) ==
    /\ templates' = IF readable THEN Put(templates, t.name, t) ELSE templates

\* the names a template declares
DeclaredFieldNames(t) == {t.fields[k].name : k \in 1..Len(t.fields)}

-----------------------------------------------------------------------------
(* CardFieldBuilder                                                         *)

Space == <<" ">>

\* a cloze builder whose enhanced shape keeps the legacy key Text for the body
_build_cloze_fields_TextKey(template_name, content, card_data, deck_name, tags_str) ==
    IF template_name = "Quizify Enhanced Cloze"
    THEN [k \in {"Text", "Back Extra", "Deck", "Tags", "Cloze99"} |->
            CASE k = "Text"       -> content
              [] k = "Back Extra" -> Get(card_data, "back", <<>>)
              [] k = "Deck"       -> deck_name
              [] k = "Tags"       -> tags_str
              [] k = "Cloze99"    -> <<>>]
    ELSE [k \in {"Text", "Back Extra", "Deck", "Tags"} |->
            CASE k = "Text"       -> content
              [] k = "Back Extra" -> Get(card_data, "back", <<>>)
              [] k = "Deck"       -> deck_name
              [] k = "Tags"       -> tags_str]

_build_cloze_fields(template_name, content, card_data, deck_name, tags_str) ==
    IF template_name = "Quizify Enhanced Cloze"
    THEN [k \in {"Content", "Back Extra", "Deck", "Tags", "Cloze99"} |->
            CASE k = "Content"    -> content
              [] k = "Back Extra" -> Get(card_data, "back", <<>>)
              [] k = "Deck"       -> deck_name
              [] k = "Tags"       -> tags_str
              [] k = "Cloze99"    -> <<>>]
    ELSE [k \in {"Text", "Back Extra", "Deck", "Tags"} |->
            CASE k = "Text"       -> content
              [] k = "Back Extra" -> Get(card_data, "back", <<>>)
              [] k = "Deck"       -> deck_name
              [] k = "Tags"       -> tags_str]

\* a builder that fills Back with the body, as the default shape does
_build_quizify_fields_BackIsBody(content, card_data, deck_name, tags_str) ==
    [k \in {"Front", "Back", "Deck", "Tags"} |->
        CASE k = "Front" -> content
          [] k = "Back"  -> content
          [] k = "Deck"  -> deck_name
          [] k = "Tags"  -> tags_str]

_build_quizify_fields(content, card_data, deck_name, tags_str) ==
    [k \in {"Front", "Back", "Deck", "Tags"} |->
        CASE k = "Front" -> content
          [] k = "Back"  -> Get(card_data, "back", <<>>)
          [] k = "Deck"  -> deck_name
          [] k = "Tags"  -> tags_str]

_build_standard_fields(content, deck_name, tags_str) ==
    [k \in {"Front", "Back", "Deck", "Tags"} |->
        CASE k = "Front" -> content
          [] k = "Back"  -> content
          [] k = "Deck"  -> deck_name
          [] k = "Tags"  -> tags_str]

build_fields(template, cloze_content, card_data, deck_name) ==
    LET template_name == Get(template, "name", "")
        is_cloze      == Get(template, "is_cloze", FALSE)
        is_quizify    == template_name = "Quizify"
        tags_str      == Join(Get(card_data, "tags", <<>>), Space)
    IN  IF is_cloze
        THEN _build_cloze_fields(template_name, cloze_content, card_data, deck_name, tags_str)
        ELSE IF is_quizify
        THEN _build_quizify_fields(cloze_content, card_data, deck_name, tags_str)
        ELSE _build_standard_fields(cloze_content, deck_name, tags_str)

-----------------------------------------------------------------------------
(* The field builder called on the templates of the registry                *)

\* tag sequences and payloads handed to the builder
TagLists == {<<>>, <<<<"t">>>>, <<<<"t">>, <<"u">>>>}

FieldPayloads ==
    {[tags |-> tg] : tg \in TagLists}
    \cup {[tags |-> tg, back |-> b] : tg \in TagLists, b \in {<<>>, <<"b">>}}

BfInit == built = <<>>

BuildFields ==
    \E template \in {templates[n] : n \in DOMAIN templates} \cup {NoTemplate},
       body \in {<<"q">>}, card_data \in FieldPayloads, deck_name \in {<<"D">>} :
        built' = <<[template  |-> template,
                    body      |-> body,
                    card_data |-> card_data,
                    deck_name |-> deck_name,
                    fields    |-> build_fields(template, body, card_data, deck_name)]>>

CreateCustomTemplate == \E t \in CustomTemplates : create_custom_template(t)

ImportTemplate == \E t \in CustomTemplates, readable \in BOOLEAN : import_template(t, readable)

\* C1 (as claimed). Field-set invariant: for every template the registry holds,
\* build_fields returns a mapping whose key set is exactly the set of field
\* names the template declares.
C1_FieldSetInvariant ==
    \A k \in DOMAIN built :
        ~IsNone(built[k].template) =>
            DOMAIN built[k].fields = DeclaredFieldNames(built[k].template)

\* the calls of the enhanced-cloze shape: a cloze template that carries the
\* name the builder dispatches on
EnhancedClozeShape(b) ==
    /\ ~IsNone(b.template)
    /\ b.template.is_cloze
    /\ b.template.name = "Quizify Enhanced Cloze"

LegacyClozeFields == {"Text", "Back Extra", "Deck", "Tags"}

\* C20 (as claimed). Enhanced-cloze field shape: build_fields emits the four
\* legacy-cloze fields Text, Back Extra, Deck and Tags plus exactly one more
\* field, whose value is the empty string.
C20_EnhancedClozeShape_Claimed ==
    \A k \in DOMAIN built :
        EnhancedClozeShape(built[k]) =>
            /\ LegacyClozeFields \subseteq DOMAIN built[k].fields
            /\ Cardinality(DOMAIN built[k].fields \ LegacyClozeFields) = 1
            /\ \A f \in DOMAIN built[k].fields \ LegacyClozeFields :
                   built[k].fields[f] = <<>>

\* C20 (amended). Enhanced-cloze field shape: build_fields emits Content (the
\* body), Back Extra (the back of the payload, or empty), Deck and Tags (the
\* space-joined tags), that is the legacy-cloze fields with Content in the
\* place of Text, plus exactly one more field, Cloze99, whose value is the
\* empty string.
C20_EnhancedClozeShape ==
    \A k \in DOMAIN built :
        EnhancedClozeShape(built[k]) =>
            LET fields == built[k].fields
            IN  /\ DOMAIN fields = {"Content", "Back Extra", "Deck", "Tags", "Cloze99"}
                /\ fields["Content"] = built[k].body
                /\ fields["Back Extra"] = Get(built[k].card_data, "back", <<>>)
                /\ fields["Deck"] = built[k].deck_name
                /\ fields["Tags"] = Join(built[k].card_data.tags, Space)
                /\ fields["Cloze99"] = <<>>

\* a call of the enhanced-cloze shape with a back in the payload and two tags
C20_Witness ==
    \E k \in DOMAIN built :
        /\ EnhancedClozeShape(built[k])
        /\ Get(built[k].card_data, "back", <<>>) = <<"b">>
        /\ Len(built[k].card_data.tags) = 2
        /\ Cardinality(DOMAIN built[k].fields) = 5

-----------------------------------------------------------------------------
(* CardGenerator: one generate_cards call.  The prompt text is opaque: the  *)
(* call is determined by the config, by whether the prompt manager finds a  *)
(* prompt and by what the structured-generation collaborator answers.       *)

GenerationConfig(template_name, prompt_type, custom_deck_name) ==
    [template_name |-> template_name, prompt_type |-> prompt_type,
     custom_deck_name |-> custom_deck_name]

\* CardGenerationHelper.get_effective_prompt_type
get_effective_prompt_type(config) ==
    IF config.template_name = "Quizify Enhanced Cloze" /\ config.prompt_type = "cloze"
    THEN "enhanced_cloze"
    ELSE config.prompt_type

\* a choice that always takes the second value
Or_Second(a, b) == b

\* `a or b` on two strings: a when it is non-empty (None and "" are both <<>>)
Or(a, b) == IF a # <<>> THEN a ELSE b

CardData(front, back, deck, tags, model, fields, cloze_data) ==
    [front |-> front, back |-> back, deck |-> deck, tags |-> tags, model |-> model,
     fields |-> fields, cloze_data |-> cloze_data]

\* the keys a standard item is indexed with: a missing one is a KeyError
StandardItemOk(card_data, config) ==
    /\ {"front", "back", "tags"} \subseteq DOMAIN card_data
    /\ config.custom_deck_name # <<>> \/ "deck" \in DOMAIN card_data

\* the body of the loop of _generate_standard_cards
StandardCard(card_data, template, config) ==
    LET deck_name == Or(config.custom_deck_name, Get(card_data, "deck", <<>>))
    IN  CardData(card_data.front, card_data.back, deck_name, card_data.tags,
                 template.name,
                 [k \in {"Front", "Back", "Deck", "Tags"} |->
                    CASE k = "Front" -> card_data.front
                      [] k = "Back"  -> card_data.back
                      [] k = "Deck"  -> deck_name
                      [] k = "Tags"  -> Join(card_data.tags, Space)],
                 <<>>)

\* the keys a cloze item is indexed with
ClozeItemOk(card_data, config) ==
    /\ {"content", "tags"} \subseteq DOMAIN card_data
    /\ config.custom_deck_name # <<>> \/ "deck" \in DOMAIN card_data

_create_cloze_card(card_data, template, config) ==
    LET content       == card_data.content
        clozes        == Get(card_data, "clozes", <<>>)
        cloze_content == IF clozes # <<>> THEN process_cloze_content(content, clozes)
                         ELSE content
        cloze_meta    == IF clozes # <<>>
                         THEN <<[clozes |-> clozes, original_content |-> content]>>
                         ELSE <<>>
        deck_name     == Or(config.custom_deck_name, Get(card_data, "deck", <<>>))
        fields        == build_fields(template, cloze_content, card_data, deck_name)
        template_name == Get(template, "name", "")
        is_quizify    == template_name = "Quizify"
        is_cloze      == Get(template, "is_cloze", FALSE)
        front_content == cloze_content
        back_content  == IF is_quizify /\ ~is_cloze THEN <<>> ELSE cloze_content
    IN  CardData(front_content, back_content, deck_name, card_data.tags,
                 template.name, fields, cloze_meta)

\* what a call leaves: the records or the raised error, the number of calls
\* made to the collaborator and the schema handed to it
Returned(cards, schema) ==
    [raised |-> FALSE, error |-> "", cards |-> cards, llm_calls |-> 1, schema |-> schema]

Raised(error, llm_calls, schema) ==
    [raised |-> TRUE, error |-> error, cards |-> <<>>, llm_calls |-> llm_calls,
     schema |-> schema]

\* the collaborator's answer: it raises, or returns a parsed object
LLMRaises == [raised |-> TRUE]
LLMReturns(cards) == [raised |-> FALSE, cards |-> cards]

_generate_standard_cards(template, config, response) ==
    IF response.raised THEN Raised("GenerationFailed", 1, "standard")
    ELSE IF \E k \in DOMAIN response.cards : ~StandardItemOk(response.cards[k], config)
    THEN Raised("KeyError", 1, "standard")
    ELSE Returned([k \in DOMAIN response.cards |->
                      StandardCard(response.cards[k], template, config)], "standard")

_generate_cloze_cards(template, config, response) ==
    IF response.raised THEN Raised("GenerationFailed", 1, "cloze")
    ELSE IF \E k \in DOMAIN response.cards : ~ClozeItemOk(response.cards[k], config)
    THEN Raised("KeyError", 1, "cloze")
    ELSE Returned([k \in DOMAIN response.cards |->
                      _create_cloze_card(response.cards[k], template, config)], "cloze")

\* a generate_cards that looks the template up after the collaborator answered
generate_cards_LateLookup(config, prompt_found, response) ==
    LET template == get_template(config.template_name)
        effective_prompt_type == get_effective_prompt_type(config)
    IN  IF ~prompt_found THEN Raised("PromptNotFound", 0, "none")
        ELSE IF IsNone(template)
        THEN Raised(IF response.raised THEN "GenerationFailed" ELSE "TemplateNotFound", 1,
                    IF effective_prompt_type \in {"cloze", "enhanced_cloze"}
                    THEN "cloze" ELSE "standard")
        ELSE IF effective_prompt_type \in {"cloze", "enhanced_cloze"}
        THEN _generate_cloze_cards(template, config, response)
        ELSE _generate_standard_cards(template, config, response)

generate_cards(config, prompt_found, response) ==
    LET template == get_template(config.template_name)
        effective_prompt_type == get_effective_prompt_type(config)
    IN  IF IsNone(template) THEN Raised("TemplateNotFound", 0, "none")
        ELSE IF ~prompt_found THEN Raised("PromptNotFound", 0, "none")
        ELSE IF effective_prompt_type \in {"cloze", "enhanced_cloze"}
        THEN _generate_cloze_cards(template, config, response)
        ELSE _generate_standard_cards(template, config, response)

-----------------------------------------------------------------------------
(* One generate_cards call on the registry                                  *)

MaxItems == 2       \* most items in one answer of the collaborator

Span(id, text, hint) == [id |-> id, text |-> text, hint |-> hint, position |-> <<>>]

\* items the collaborator returns: of the standard shape, of the cloze shape
\* (without spans, with one span of id 1, with a hint, with back content and
\* two spans) and one that lacks the deck the schema requires
Items ==
    { [front |-> <<"q">>, back |-> <<"b">>, tags |-> <<<<"t">>>>, deck |-> <<"D">>],
      [content |-> <<"a", "c">>, tags |-> <<>>, deck |-> <<"D">>],
      [content |-> <<"a", "c">>, tags |-> <<<<"t">>>>, deck |-> <<"E">>,
       clozes |-> <<Span(1, <<"c">>, <<>>)>>],
      [content |-> <<"a", "c">>, tags |-> <<<<"t">>, <<"u">>>>, deck |-> <<"D">>,
       clozes |-> <<Span(1, <<"a">>, <<"c">>)>>],
      [content |-> <<"a", "c">>, back |-> <<"b">>, tags |-> <<>>, deck |-> <<"D">>,
       clozes |-> <<Span(2, <<"c">>, <<>>), Span(1, <<"a">>, <<>>)>>],
      [content |-> <<"a", "c">>, tags |-> <<>>] }

Responses == {LLMRaises} \cup {LLMReturns(cards) : cards \in SeqsOf(Items, 0, MaxItems)}

SynthConfigs ==
    {GenerationConfig(t, p, d) :
        t \in {"Quizify", "Enhanced Cloze", "Quizify Enhanced Cloze", "Absent"},
        p \in {"cloze", "enhanced_cloze", "multiple_choice"},
        d \in {<<>>, <<"K">>}}

SynInit == synth = <<>>

\* the call, with the template it resolved kept beside its arguments; the
\* call changes no state of the generator, so one call per behaviour covers
\* every call
Synthesize ==
    /\ synth = <<>>
    /\ \E config \in SynthConfigs, prompt_found \in BOOLEAN, response \in Responses :
          synth' = <<[config       |-> config,
                      template     |-> get_template(config.template_name),
                      prompt_found |-> prompt_found,
                      response     |-> response,
                      outcome      |-> generate_cards(config, prompt_found, response)]>>

\* an item of the quiz scenario: of the cloze shape, one span with id 1 whose
\* text occurs in the content, no back content
QuizScenarioItem(item) ==
    /\ {"content", "tags", "deck"} \subseteq DOMAIN item
    /\ "back" \notin DOMAIN item
    /\ "clozes" \in DOMAIN item
    /\ Len(item.clozes) = 1
    /\ item.clozes[1].id = 1
    /\ Contains(item.content, item.clozes[1].text)

\* a call of the quiz scenario: template Quizify, prompt kind cloze, the
\* collaborator answered with scenario items only
QuizScenarioCall(c) ==
    /\ c.config.template_name = "Quizify"
    /\ c.config.prompt_type = "cloze"
    /\ ~IsNone(c.template)
    /\ c.prompt_found
    /\ ~c.response.raised
    /\ \A k \in DOMAIN c.response.cards : QuizScenarioItem(c.response.cards[k])

\* C8. Quiz-template cloze scenario: with template Quizify and prompt kind
\* cloze, items that carry one span of id 1 occurring in their content and no
\* back content give one record per item, each with model Quizify, exactly one
\* {{c1::...}} marker (and no other marker) in fields["Front"], and an empty
\* fields["Back"] and back.
C8_QuizClozeScenario ==
    \A n \in DOMAIN synth :
        QuizScenarioCall(synth[n]) =>
            LET out == synth[n].outcome
            IN  /\ ~out.raised
                /\ Len(out.cards) = Len(synth[n].response.cards)
                /\ \A k \in DOMAIN out.cards :
                      /\ out.cards[k].model = "Quizify"
                      /\ "Front" \in DOMAIN out.cards[k].fields
                      /\ MarkerCountOfId(out.cards[k].fields["Front"], 1) = 1
                      /\ MarkerCount(out.cards[k].fields["Front"]) = 1
                      /\ out.cards[k].fields["Back"] = <<>>
                      /\ out.cards[k].back = <<>>

\* the scenario itself: two scenario items, two records
C8_Witness ==
    \E n \in DOMAIN synth :
        /\ QuizScenarioCall(synth[n])
        /\ Len(synth[n].response.cards) = 2
        /\ Len(synth[n].outcome.cards) = 2
        /\ synth[n].template = QuizifyTemplate

\* C12. TemplateNotFound: a call whose config.template_name is absent from the
\* registry raises TemplateNotFound, with no call made to the collaborator and
\* no records; a call that reached the collaborator, which raised, ends with
\* the collaborator's error.
C12_TemplateNotFound ==
    \A n \in DOMAIN synth :
        LET c == synth[n]
        IN  /\ c.config.template_name \notin DOMAIN templates =>
                   /\ c.outcome.raised
                   /\ c.outcome.error = "TemplateNotFound"
                   /\ c.outcome.llm_calls = 0
                   /\ c.outcome.cards = <<>>
            /\ (c.config.template_name \in DOMAIN templates /\ c.prompt_found
                    /\ c.response.raised) =>
                   /\ c.outcome.raised
                   /\ c.outcome.error = "GenerationFailed"
                   /\ c.outcome.llm_calls = 1
                   /\ c.outcome.cards = <<>>

\* a call for an absent template, with a prompt at hand and a collaborator
\* that would have answered with two items
C12_Witness ==
    \E n \in DOMAIN synth :
        /\ synth[n].config.template_name \notin DOMAIN templates
        /\ DOMAIN templates # {}
        /\ synth[n].prompt_found
        /\ ~synth[n].response.raised
        /\ Len(synth[n].response.cards) = 2
        /\ synth[n].outcome.error = "TemplateNotFound"

FrontBearing == {"Front", "Text", "Content"}
BackBearing  == {"Back", "Back Extra"}

\* C13 (as claimed). Front/back consistency: every record a call returns has a
\* front-bearing entry (Front, Text or Content) in fields whose value is its
\* front, and a back-bearing entry (Back or Back Extra) whose value is its
\* back.
C13_FrontBackConsistency ==
    \A n \in DOMAIN synth :
        \A k \in DOMAIN synth[n].outcome.cards :
            LET card == synth[n].outcome.cards[k]
            IN  /\ FrontBearing \cap DOMAIN card.fields # {}
                /\ \A f \in FrontBearing \cap DOMAIN card.fields :
                       card.fields[f] = card.front
                /\ BackBearing \cap DOMAIN card.fields # {}
                /\ \A f \in BackBearing \cap DOMAIN card.fields :
                       card.fields[f] = card.back

\* C14 (as claimed). Field-set invariant over both synthesis paths: every
\* record a call returns has a fields mapping whose key set is the set of
\* field names declared by the template its model attribute names.
C14_RecordFieldSet ==
    \A n \in DOMAIN synth :
        \A k \in DOMAIN synth[n].outcome.cards :
            LET card == synth[n].outcome.cards[k]
            IN  /\ card.model \in DOMAIN templates
                /\ DOMAIN card.fields = DeclaredFieldNames(templates[card.model])

-----------------------------------------------------------------------------
(* BatchCardGenerator.generate_batch: one step per chunk, the await of      *)
(* generate_cards being the only suspension point of an iteration.          *)

MaxChunks == 3      \* most chunks in one batch

ChunkTexts == {<<"p">>}

BatchItems ==
    { [content |-> <<"a", "c">>, tags |-> <<>>, deck |-> <<"D">>],
      [content |-> <<"a", "c">>, tags |-> <<<<"t">>>>, deck |-> <<"E">>,
       clozes |-> <<Span(1, <<"c">>, <<>>)>>] }

BatchResponses ==
    {LLMRaises} \cup {LLMReturns(cards) : cards \in SeqsOf(BatchItems, 0, MaxItems)}

BatchConfigs ==
    { GenerationConfig("Quizify", "cloze", <<>>),
      GenerationConfig("Enhanced Cloze", "cloze", <<"K">>),
      GenerationConfig("Absent", "cloze", <<>>) }

\* isinstance(x, CardData)
IsCardData(x) ==
    DOMAIN x = {"front", "back", "deck", "tags", "model", "fields", "cloze_data"}

\* a generate_batch that lets the exception of a chunk escape
BatchIteration_Propagates(all_cards, outcome) ==
    IF outcome.raised
    THEN [all_cards |-> all_cards, pc |-> "raised"]
    ELSE [all_cards |-> all_cards \o outcome.cards, pc |-> "loop"]

\* one iteration of the loop, given what the awaited generate_cards did: an
\* exception is logged and the chunk skipped, a result whose first element is
\* no CardData is logged and skipped, any other result extends all_cards
BatchIteration(all_cards, outcome) ==
    IF outcome.raised
    THEN [all_cards |-> all_cards, pc |-> "loop"]
    ELSE IF outcome.cards # <<>> /\ ~IsCardData(outcome.cards[1])
    THEN [all_cards |-> all_cards, pc |-> "loop"]
    ELSE [all_cards |-> all_cards \o outcome.cards, pc |-> "loop"]

BatInit ==
    /\ b_contents = <<>>
    /\ b_config = GenerationConfig("", "", <<>>)
    /\ b_i = 0
    /\ b_all_cards = <<>>
    /\ b_log = <<>>
    /\ b_pc = "idle"

\* the call: all_cards = []
BatchStart ==
    /\ b_pc = "idle"
    /\ \E contents \in SeqsOf(ChunkTexts, 0, MaxChunks), config \in BatchConfigs :
          /\ b_contents' = contents
          /\ b_config' = config
    /\ b_i' = 1
    /\ b_all_cards' = <<>>
    /\ b_log' = <<>>
    /\ b_pc' = "loop"

\* one iteration: generate_cards is awaited on the chunk and its result handled
BatchChunk ==
    /\ b_pc = "loop"
    /\ b_i <= Len(b_contents)
    /\ \E prompt_found \in BOOLEAN, response \in BatchResponses :
          LET outcome == generate_cards(b_config, prompt_found, response)
              next    == BatchIteration(b_all_cards, outcome)
          IN  /\ b_log' = Append(b_log, outcome)
              /\ b_all_cards' = next.all_cards
              /\ b_pc' = next.pc
    /\ b_i' = b_i + 1
    /\ UNCHANGED <<b_contents, b_config>>

\* after the last chunk: return all_cards
BatchReturn ==
    /\ b_pc = "loop"
    /\ b_i > Len(b_contents)
    /\ b_pc' = "returned"
    /\ UNCHANGED <<b_contents, b_config, b_i, b_all_cards, b_log>>

\* the records of the chunks that did not raise, in chunk order
RECURSIVE RecordsOfLog(_)
RecordsOfLog(log) ==
    IF log = <<>> THEN <<>>
    ELSE (IF Head(log).raised THEN <<>> ELSE Head(log).cards) \o RecordsOfLog(Tail(log))

\* C2. Batch isolation: generate_batch never raises, whichever chunks raise,
\* and returns exactly the records of the chunks that did not raise,
\* concatenated in chunk order (the empty list when every chunk raised).
C2_BatchIsolation ==
    /\ b_pc # "raised"
    /\ b_pc = "returned" =>
          /\ Len(b_log) = Len(b_contents)
          /\ b_all_cards = RecordsOfLog(b_log)

\* three chunks, the second raised, the first and the third gave records
C2_Witness ==
    /\ b_pc = "returned"
    /\ Len(b_contents) = 3
    /\ ~b_log[1].raised /\ b_log[1].cards # <<>>
    /\ b_log[2].raised
    /\ ~b_log[3].raised /\ b_log[3].cards # <<>>
    /\ Len(b_all_cards) = Len(b_log[1].cards) + Len(b_log[3].cards)

-----------------------------------------------------------------------------
(* Identifiers: ExportConstants.MODEL_IDS, ModelFactory.get_model_id,       *)
(* UnifiedExporter._get_deck_id.  A 32-bit identifier is the pair of its    *)
(* 16-bit halves, [hi, lo] standing for hi * 65536 + lo.                    *)

\* the characters of a template, model, field or format name
NameChars(name) ==
    CASE name = "Quizify" -> <<"Q", "u", "i", "z", "i", "f", "y">>
      [] name = "Enhanced Cloze" -> <<"E", "n", "h", "a", "n", "c", "e", "d", " ", "C", "l", "o", "z", "e">>
      [] name = "Quizify Enhanced Cloze" -> <<"Q", "u", "i", "z", "i", "f", "y", " ", "E", "n", "h", "a", "n", "c", "e", "d", " ", "C", "l", "o", "z", "e">>
      [] name = "Basic" -> <<"B", "a", "s", "i", "c">>
      [] name = "Cloze" -> <<"C", "l", "o", "z", "e">>
      [] name = "cloze" -> <<"c", "l", "o", "z", "e">>
      [] name = "basic" -> <<"b", "a", "s", "i", "c">>
      [] name = "Front" -> <<"F", "r", "o", "n", "t">>
      [] name = "Back" -> <<"B", "a", "c", "k">>
      [] name = "Text" -> <<"T", "e", "x", "t">>
      [] name = "Content" -> <<"C", "o", "n", "t", "e", "n", "t">>
      [] name = "Back Extra" -> <<"B", "a", "c", "k", " ", "E", "x", "t", "r", "a">>
      [] name = "Cloze99" -> <<"C", "l", "o", "z", "e", "9", "9">>
      [] name = "Deck" -> <<"D", "e", "c", "k">>
      [] name = "Tags" -> <<"T", "a", "g", "s">>
      [] name = "Extra" -> <<"E", "x", "t", "r", "a">>
      [] name = "json" -> <<"j", "s", "o", "n">>
      [] name = "csv" -> <<"c", "s", "v">>
      [] name = "apkg" -> <<"a", "p", "k", "g">>
      [] name = "txt" -> <<"t", "x", "t">>
      [] name = "html" -> <<"h", "t", "m", "l">>
      [] name = "badformat" -> <<"b", "a", "d", "f", "o", "r", "m", "a", "t">>

Int32(n) == [hi |-> n \div 65536, lo |-> n % 65536]

MODEL_IDS ==
    [name \in {"basic", "basic_reversed", "cloze", "quizify_enhanced_cloze"} |->
        CASE name = "basic"                  -> Int32(1607392319)
          [] name = "basic_reversed"         -> Int32(1607392320)
          [] name = "cloze"                  -> Int32(1607392321)
          [] name = "quizify_enhanced_cloze" -> Int32(1607392322)]

\* hashlib.md5(text.encode()).hexdigest(), for the texts of the model
md5_hexdigest(text) ==
    CASE
         text = <<"D">> ->
           <<"f", "6", "2", "3", "e", "7", "5", "a", "f", "3", "0", "e", "6", "2", "b", "b", "d", "7", "3", "d", "6", "d", "f", "5", "b", "5", "0", "b", "b", "7", "b", "5">>
      [] text = <<"E">> ->
           <<"3", "a", "3", "e", "a", "0", "0", "c", "f", "c", "3", "5", "3", "3", "2", "c", "e", "d", "f", "6", "e", "5", "e", "9", "a", "3", "2", "e", "9", "4", "d", "a">>
      [] text = <<"K">> ->
           <<"a", "5", "f", "3", "c", "6", "a", "1", "1", "b", "0", "3", "8", "3", "9", "d", "4", "6", "a", "f", "9", "f", "b", "4", "3", "c", "9", "7", "c", "1", "8", "8">>
      [] text = <<"Q", "u", "i", "z", "i", "f", "y">> ->
           <<"8", "6", "0", "0", "d", "d", "1", "a", "2", "f", "0", "5", "1", "d", "3", "2", "8", "b", "4", "6", "d", "9", "c", "f", "f", "c", "e", "c", "6", "e", "7", "2">>
      [] text = <<"E", "n", "h", "a", "n", "c", "e", "d", " ", "C", "l", "o", "z", "e">> ->
           <<"0", "3", "2", "5", "4", "4", "b", "f", "6", "3", "1", "2", "9", "3", "b", "8", "2", "9", "5", "4", "0", "a", "8", "6", "c", "f", "f", "1", "0", "2", "2", "2">>
      [] text = <<"Q", "u", "i", "z", "i", "f", "y", " ", "E", "n", "h", "a", "n", "c", "e", "d", " ", "C", "l", "o", "z", "e">> ->
           <<"5", "6", "d", "e", "4", "f", "7", "6", "6", "f", "6", "4", "5", "7", "3", "d", "c", "3", "8", "c", "3", "0", "3", "f", "6", "4", "1", "4", "e", "6", "2", "4">>
      [] text = <<"B", "a", "s", "i", "c">> ->
           <<"9", "7", "2", "e", "7", "3", "b", "7", "a", "8", "8", "2", "d", "0", "8", "0", "2", "a", "4", "e", "3", "a", "1", "6", "9", "4", "6", "a", "2", "f", "9", "4">>
      [] text = <<"C", "l", "o", "z", "e">> ->
           <<"6", "8", "e", "7", "9", "f", "1", "a", "a", "e", "9", "9", "1", "1", "b", "3", "7", "8", "6", "6", "9", "3", "9", "e", "0", "2", "f", "f", "f", "7", "4", "b">>
      [] text = <<"c", "l", "o", "z", "e">> ->
           <<"5", "4", "b", "3", "a", "a", "3", "2", "c", "d", "4", "3", "a", "b", "5", "7", "f", "c", "4", "0", "f", "d", "2", "7", "f", "c", "8", "4", "9", "c", "7", "d">>
      [] text = <<"b", "a", "s", "i", "c">> ->
           <<"f", "1", "7", "a", "a", "a", "b", "c", "2", "0", "b", "f", "e", "0", "4", "5", "0", "7", "5", "9", "2", "7", "9", "3", "4", "f", "e", "d", "5", "2", "d", "2">>

HexDigits == <<"0", "1", "2", "3", "4", "5", "6", "7", "8", "9",
               "a", "b", "c", "d", "e", "f">>

HexValue(c) == (CHOOSE k \in 1..16 : HexDigits[k] = c) - 1

\* int(h, 16) for four hex digits
Int16(h) == ((HexValue(h[1]) * 16 + HexValue(h[2])) * 16 + HexValue(h[3])) * 16
            + HexValue(h[4])

\* an identifier made of the last eight hex digits, the low 32 bits of the
\* digest read as one integer
HashId_Low32(text) ==
    LET h == md5_hexdigest(text)
    IN  [hi |-> Int16(SubSeq(h, 25, 28)), lo |-> Int16(SubSeq(h, 29, 32))]

\* int(hash_obj.hexdigest()[:8], 16)
HashId(text) ==
    LET h == md5_hexdigest(text)
    IN  [hi |-> Int16(SubSeq(h, 1, 4)), lo |-> Int16(SubSeq(h, 5, 8))]

\* a get_model_id that hands out the next free number to a name outside the
\* table, as a factory counting its cached models would
get_model_id_NextFree(model_name) ==
    IF model_name \in DOMAIN MODEL_IDS THEN MODEL_IDS[model_name]
    ELSE Int32(1 + Cardinality(DOMAIN model_cache))

get_model_id(model_name) ==
    IF model_name \in DOMAIN MODEL_IDS THEN MODEL_IDS[model_name]
    ELSE HashId(NameChars(model_name))

\* a _get_deck_id whose cache keeps the latest deck only
_get_deck_id_KeepsLatest(ids, deck_name) ==
    IF deck_name \notin DOMAIN ids
    THEN [deck_ids |-> Put(EmptyMap, deck_name, HashId(deck_name)),
          id |-> HashId(deck_name)]
    ELSE [deck_ids |-> ids, id |-> ids[deck_name]]

\* _get_deck_id on the cache `ids`: the cache it leaves and the id it returns
_get_deck_id(ids, deck_name) ==
    IF deck_name \notin DOMAIN ids
    THEN [deck_ids |-> Put(ids, deck_name, HashId(deck_name)),
          id |-> HashId(deck_name)]
    ELSE [deck_ids |-> ids, id |-> ids[deck_name]]

-----------------------------------------------------------------------------
(* TextProcessor, ModelFactory, NoteFactory                                 *)

UpperLetters == <<"A", "B", "C", "D", "E", "F", "G", "H", "I", "J", "K", "L", "M",
                  "N", "O", "P", "Q", "R", "S", "T", "U", "V", "W", "X", "Y", "Z">>

LowerLetters == <<"a", "b", "c", "d", "e", "f", "g", "h", "i", "j", "k", "l", "m",
                  "n", "o", "p", "q", "r", "s", "t", "u", "v", "w", "x", "y", "z">>

\* str.lower(), letter by letter
LowerChar == [c \in Range(UpperLetters) |->
                 LowerLetters[CHOOSE u \in 1..26 : UpperLetters[u] = c]]

Lower(s) ==
    [k \in 1..Len(s) |-> IF s[k] \in DOMAIN LowerChar THEN LowerChar[s[k]] ELSE s[k]]

\* `'cloze' in name.lower()`
IsClozeName(name) == Contains(Lower(NameChars(name)), <<"c", "l", "o", "z", "e">>)

LF == "\n"
CR == "\r"
Backslash == "\\"

\* `if old in text: text = text.replace(old, new)`
ReplaceIfIn(text, old, new) ==
    IF Contains(text, old) THEN ReplaceAll(text, old, new) ELSE text

\* a normalization of the real line ends only
normalize_newlines_for_anki_RealOnly(text) ==
    ReplaceIfIn(ReplaceAll(ReplaceAll(text, <<CR, LF>>, <<LF>>), <<CR>>, <<LF>>),
                <<LF>>, <<"<", "b", "r", ">">>)

normalize_newlines_for_anki(text) ==
    ReplaceIfIn(ReplaceIfIn(ReplaceAll(ReplaceAll(text, <<CR, LF>>, <<LF>>), <<CR>>, <<LF>>),
                            <<Backslash, "n">>, <<LF>>),
                <<LF>>, <<"<", "b", "r", ">">>)

\* genanki Model: the id, the name and the names of the fields
Model(model_id, name, fields) == [model_id |-> model_id, name |-> name, fields |-> fields]

\* the three create_* methods share _model_cache, keyed by the model name;
\* each gives the cache it leaves and the model it returns
create_basic_model(cache, model_name) ==
    IF model_name \in DOMAIN cache
    THEN [cache |-> cache, model |-> cache[model_name]]
    ELSE LET model == Model(get_model_id(model_name), model_name, <<"Front", "Back">>)
         IN  [cache |-> Put(cache, model_name, model), model |-> model]

create_cloze_model(cache, model_name) ==
    IF model_name \in DOMAIN cache
    THEN [cache |-> cache, model |-> cache[model_name]]
    ELSE LET model == Model(get_model_id(model_name), model_name, <<"Text", "Back Extra">>)
         IN  [cache |-> Put(cache, model_name, model), model |-> model]

create_model_from_template(cache, template) ==
    IF template.name \in DOMAIN cache
    THEN [cache |-> cache, model |-> cache[template.name]]
    ELSE LET fields == [k \in 1..Len(template.fields) |-> template.fields[k].name]
             model  == Model(get_model_id(template.name), template.name, fields)
         IN  [cache |-> Put(cache, template.name, model), model |-> model]

get_model_for_card(cache, card) ==
    IF IsClozeName(card.model) THEN create_cloze_model(cache, card.model)
    ELSE create_basic_model(cache, card.model)

\* genanki Note: the model and the field values; `card` is the position in
\* the exported list of the record the note was made from
Note(model, fields, card) == [model |-> model, fields |-> fields, card |-> card]

create_note(card, model, k) ==
    IF IsClozeName(model.name)
    THEN Note(model,
              <<normalize_newlines_for_anki(Get(card.fields, "Text", <<>>)),
                normalize_newlines_for_anki(Get(card.fields, "Back Extra", <<>>))>>, k)
    ELSE Note(model,
              <<normalize_newlines_for_anki(Get(card.fields, "Front", <<>>)),
                normalize_newlines_for_anki(Get(card.fields, "Back", <<>>))>>, k)

\* field_mapping, and card.fields.get(field.name, field.default_value) for a
\* field the mapping does not name
FieldValue(card, field) ==
    CASE field.name = "Front"      -> Get(card.fields, "Front", card.front)
      [] field.name = "Back"       -> Get(card.fields, "Back", card.back)
      [] field.name = "Text"       -> Get(card.fields, "Text", card.front)
      [] field.name = "Content"    -> Get(card.fields, "Content", card.front)
      [] field.name = "Back Extra" -> Get(card.fields, "Back Extra", card.back)
      [] field.name = "Cloze99"    -> <<>>
      [] field.name = "Deck"       -> card.deck
      [] field.name = "Tags"       -> Join(card.tags, Space)
      [] OTHER                     -> Get(card.fields, field.name, field.default_value)

create_note_from_template(card, model, template, k) ==
    Note(model,
         [f \in 1..Len(template.fields) |->
             normalize_newlines_for_anki(FieldValue(card, template.fields[f]))], k)

-----------------------------------------------------------------------------
(* UnifiedExporter: the package export                                      *)

\* _create_model_and_note
_create_model_and_note(cache, card, template_name, k) ==
    LET template == get_template(template_name)
    IN  IF has_tm /\ ~IsNone(template)
        THEN LET r == create_model_from_template(cache, template)
             IN  [cache |-> r.cache, model |-> r.model,
                  note |-> create_note_from_template(card, r.model, template, k)]
        ELSE LET r == get_model_for_card(cache, card)
             IN  [cache |-> r.cache, model |-> r.model,
                  note |-> create_note(card, r.model, k)]

\* the keys of deck_groups, in the order the dict keeps them
DeckNamesInOrder(cards) ==
    LET F[k \in 0..Len(cards)] ==
            IF k = 0 THEN <<>>
            ELSE IF cards[k].deck \in Range(F[k - 1]) THEN F[k - 1]
            ELSE Append(F[k - 1], cards[k].deck)
    IN  F[Len(cards)]

\* the positions of the records of one deck, in the order of the list
IndicesOf(cards, deck_name) ==
    SelectSeq([k \in 1..Len(cards) |-> k], LAMBDA k : cards[k].deck = deck_name)

\* a grouping that opens a group for every record
DeckGroups_PerRecord(cards) ==
    [k \in 1..Len(cards) |-> [deck_name |-> cards[k].deck, cards |-> <<k>>]]

\* deck_groups: one group per deck name, holding its records
DeckGroups(cards) ==
    LET names == DeckNamesInOrder(cards)
    IN  [g \in 1..Len(names) |->
            [deck_name |-> names[g], cards |-> IndicesOf(cards, names[g])]]

\* the inner loop of _create_decks_from_cards over the records of one deck
RECURSIVE NotesOf(_, _, _, _)
NotesOf(cache, cards, idxs, template_name) ==
    IF idxs = <<>> THEN [cache |-> cache, notes |-> <<>>]
    ELSE LET card == cards[Head(idxs)]
             effective_template_name ==
                 IF template_name # <<>> THEN template_name[1] ELSE card.model
             r    == _create_model_and_note(cache, card, effective_template_name,
                                            Head(idxs))
             rest == NotesOf(r.cache, cards, Tail(idxs), template_name)
         IN  [cache |-> rest.cache, notes |-> <<r.note>> \o rest.notes]

\* genanki Deck
Deck(deck_id, name, notes) == [deck_id |-> deck_id, name |-> name, notes |-> notes]

\* the outer loop of _create_decks_from_cards over the groups
RECURSIVE DecksOf(_, _, _, _, _)
DecksOf(ids, cache, cards, groups, template_name) ==
    IF groups = <<>> THEN [deck_ids |-> ids, cache |-> cache, decks |-> <<>>]
    ELSE LET g    == Head(groups)
             d    == _get_deck_id(ids, g.deck_name)
             n    == NotesOf(cache, cards, g.cards, template_name)
             rest == DecksOf(d.deck_ids, n.cache, cards, Tail(groups), template_name)
         IN  [deck_ids |-> rest.deck_ids, cache |-> rest.cache,
              decks |-> <<Deck(d.id, g.deck_name, n.notes)>> \o rest.decks]

_create_decks_from_cards(ids, cache, cards, template_name) ==
    DecksOf(ids, cache, cards, DeckGroups(cards), template_name)

\* the wall clock, to the second
Clock(H, M, S) == [Y |-> 2025, m |-> 1, d |-> 31, H |-> H, M |-> M, S |-> S]

ClockStart == Clock(9, 59, 58)

SecondsOfDay(t) == (t.H * 60 + t.M) * 60 + t.S

\* the clock one second later (within the day)
NextSecond(t) ==
    IF t.S < 59 THEN [t EXCEPT !.S = t.S + 1]
    ELSE IF t.M < 59 THEN [t EXCEPT !.S = 0, !.M = t.M + 1]
    ELSE [t EXCEPT !.S = 0, !.M = 0, !.H = t.H + 1]

\* "%02d" and "%04d"
RECURSIVE Pad(_, _)
Pad(s, width) == IF Len(s) >= width THEN s ELSE Pad(<<"0">> \o s, width)

\* datetime.now().strftime('%Y%m%d_%H%M%S')
strftime(t) ==
    Pad(IntStr(t.Y), 4) \o Pad(IntStr(t.m), 2) \o Pad(IntStr(t.d), 2) \o <<"_">>
    \o Pad(IntStr(t.H), 2) \o Pad(IntStr(t.M), 2) \o Pad(IntStr(t.S), 2)

FilePrefix == <<"a", "n", "k", "i", "_", "c", "a", "r", "d", "s", "_">>

\* the default file name of every export method: a timestamp handed in is
\* used when it is not empty, the clock is read otherwise
FileName(timestamp, clock, extension) ==
    IF timestamp # <<>> /\ timestamp[1] # <<>>
    THEN FilePrefix \o timestamp[1] \o <<".">> \o NameChars(extension)
    ELSE FilePrefix \o strftime(clock) \o <<".">> \o NameChars(extension)

\* a file in the output directory
File(name, format, content) == [name |-> name, format |-> format, content |-> content]

\* str(self.output_dir / filename)
OutputPath(filename) == <<"o", "u", "t", "p", "u", "t", "/">> \o filename

\* Package(decks).write_to_file(path): it raises, or leaves one file; `made`
\* is what _create_decks_from_cards returned and left in the caches
PackageWrite(made, filename, raises) ==
    [deck_ids |-> made.deck_ids, cache |-> made.cache, raised |-> raises,
     decks |-> made.decks,
     files |-> IF raises THEN <<>>
               ELSE <<File(filename, "apkg", [decks |-> made.decks])>>,
     path |-> OutputPath(filename)]

\* export_to_apkg on the caches: the decks are built, which fills the caches,
\* and then the package is written
export_to_apkg(ids, cache, cards, template_name, timestamp, clock, raises) ==
    PackageWrite(_create_decks_from_cards(ids, cache, cards, template_name),
                 FileName(timestamp, clock, "apkg"), raises)

-----------------------------------------------------------------------------
(* FileExporter                                                             *)

\* the code points of the characters of the names, in increasing order
AsciiOrder == <<" ">> \o DigitChars \o UpperLetters \o LowerLetters

Ord(c) == CHOOSE k \in 1..Len(AsciiOrder) : AsciiOrder[k] = c

\* a < b on str
RECURSIVE StrLess(_, _)
StrLess(a, b) ==
    IF a = <<>> THEN b # <<>>
    ELSE IF b = <<>> THEN FALSE
    ELSE IF a[1] = b[1] THEN StrLess(Tail(a), Tail(b))
    ELSE Ord(a[1]) < Ord(b[1])

\* sorted(list(names))
RECURSIVE sorted(_)
sorted(names) ==
    IF names = {} THEN <<>>
    ELSE LET first == CHOOSE x \in names :
                          \A y \in names \ {x} : StrLess(NameChars(x), NameChars(y))
         IN  <<first>> \o sorted(names \ {first})

\* what a failed export leaves, and what a written one leaves
ExportRaised == [raised |-> TRUE, files |-> <<>>, path |-> <<>>]

Exported(filename, format, content) ==
    [raised |-> FALSE, files |-> <<File(filename, format, content)>>,
     path |-> OutputPath(filename)]

_format_card_for_json(card) ==
    [modelName |-> card.model, fields |-> card.fields, tags |-> card.tags,
     deckName |-> card.deck]

\* original_content[:200]
PreviewLength == 200

Ellipsis == <<".", ".", ".">>

\* the deck name written for an empty list, four CJK characters
DefaultDeckName == <<"U+9ED8", "U+8BA4", "U+724C", "U+7EC4">>

\* a preview that is cut and not marked as cut
_get_content_preview_Cut(original_content) ==
    IF original_content = <<>> \/ original_content[1] = <<>> THEN <<>>
    ELSE IF Len(original_content[1]) > PreviewLength
    THEN <<SubSeq(original_content[1], 1, PreviewLength)>>
    ELSE original_content

\* original_content is <<>> for None and <<text>> otherwise, and so is the
\* preview returned
_get_content_preview(original_content) ==
    IF original_content = <<>> \/ original_content[1] = <<>> THEN <<>>
    ELSE IF Len(original_content[1]) > PreviewLength
    THEN <<SubSeq(original_content[1], 1, PreviewLength) \o Ellipsis>>
    ELSE original_content

\* the metadata entries that come from the arguments, and the records
export_to_json(cards, original_content, timestamp, clock, raises) ==
    IF raises THEN ExportRaised
    ELSE Exported(FileName(timestamp, clock, "json"), "json",
                  [card_count |-> Len(cards),
                   deck_name |-> IF cards # <<>> THEN cards[1].deck ELSE DefaultDeckName,
                   content_preview |-> _get_content_preview(original_content),
                   cards |-> [k \in 1..Len(cards) |-> _format_card_for_json(cards[k])]])

\* the rows export_to_csv hands to writer.writerow, in order
CsvRows(cards) ==
    LET all_fields  == UNION {DOMAIN cards[k].fields : k \in 1..Len(cards)}
        field_names == sorted(all_fields)
    IN  <<<<"#separator:tab", "#html:true", "#tags column:4">>, field_names>>
        \o [k \in 1..Len(cards) |->
               [f \in 1..Len(field_names) |-> Get(cards[k].fields, field_names[f], <<>>)]]

\* an export_to_csv that names its file from the clock it reads itself
export_to_csv_OwnClock(cards, timestamp, clock, raises) ==
    IF raises THEN ExportRaised
    ELSE Exported(FileName(<<>>, clock, "csv"), "csv", [rows |-> CsvRows(cards)])

export_to_csv(cards, timestamp, clock, raises) ==
    IF raises THEN ExportRaised
    ELSE Exported(FileName(timestamp, clock, "csv"), "csv", [rows |-> CsvRows(cards)])

\* what export_to_txt and export_to_html write for a record
CardEntry(cards, k) ==
    [index |-> k, deck |-> cards[k].deck, model |-> cards[k].model,
     tags |-> Join(cards[k].tags, <<",", " ">>),
     front |-> Get(cards[k].fields, "Front", Get(cards[k].fields, "Text", <<>>)),
     back |-> Get(cards[k].fields, "Back", Get(cards[k].fields, "Back Extra", <<>>))]

export_to_txt(cards, timestamp, clock, raises) ==
    IF raises THEN ExportRaised
    ELSE Exported(FileName(timestamp, clock, "txt"), "txt",
                  [entries |-> [k \in 1..Len(cards) |-> CardEntry(cards, k)]])

export_to_html(cards, timestamp, clock, raises) ==
    IF raises THEN ExportRaised
    ELSE Exported(FileName(timestamp, clock, "html"), "html",
                  [entries |-> [k \in 1..Len(cards) |-> CardEntry(cards, k)]])

-----------------------------------------------------------------------------
(* UnifiedExporter.export_multiple_formats                                  *)

FORMAT_METHODS ==
    [format_type \in {"json", "csv", "apkg", "txt", "html"} |->
        CASE format_type = "json" -> "export_to_json"
          [] format_type = "csv"  -> "export_to_csv"
          [] format_type = "apkg" -> "export_to_apkg"
          [] format_type = "txt"  -> "export_to_txt"
          [] format_type = "html" -> "export_to_html"]

\* what an attempt leaves when its method has returned or raised: `r` is what
\* the method did, `ids` and `cache` are the caches after it
Attempted(r, ids, cache) ==
    [status |-> IF r.raised THEN "raised" ELSE "written",
     deck_ids |-> ids, cache |-> cache, files |-> r.files, path |-> r.path]

\* export_to_apkg leaves its own caches
AttemptedPackage(r) == Attempted(r, r.deck_ids, r.cache)

\* the body of the try block for one format: what the method did ("written",
\* "raised") or "skipped" when the name has no method, the caches it leaves,
\* the files it wrote and the path it returned
ExportAttempt(format_type, ids, cache, cards, original_content, template_name, timestamp, clock, raises) ==
    IF format_type \notin DOMAIN FORMAT_METHODS
    THEN [status |-> "skipped", deck_ids |-> ids, cache |-> cache, files |-> <<>>,
          path |-> <<>>]
    ELSE CASE FORMAT_METHODS[format_type] = "export_to_apkg" ->
                  AttemptedPackage(export_to_apkg(ids, cache, cards, template_name,
                                                  <<timestamp>>, clock, raises))
           [] FORMAT_METHODS[format_type] = "export_to_json" ->
                  Attempted(export_to_json(cards, original_content, <<timestamp>>, clock,
                                           raises), ids, cache)
           [] FORMAT_METHODS[format_type] = "export_to_csv" ->
                  Attempted(export_to_csv(cards, <<timestamp>>, clock, raises), ids, cache)
           [] FORMAT_METHODS[format_type] = "export_to_txt" ->
                  Attempted(export_to_txt(cards, <<timestamp>>, clock, raises), ids, cache)
           [] FORMAT_METHODS[format_type] = "export_to_html" ->
                  Attempted(export_to_html(cards, <<timestamp>>, clock, raises), ids, cache)

\* a loop without the try block: the error of a format leaves the call
ExportIteration_Propagates(export_paths, format_type, attempt) ==
    IF attempt.status = "raised" THEN [export_paths |-> export_paths, pc |-> "raised"]
    ELSE IF attempt.status = "written"
    THEN [export_paths |-> Put(export_paths, format_type, attempt.path), pc |-> "loop"]
    ELSE [export_paths |-> export_paths, pc |-> "loop"]

\* one iteration of the loop: the path is stored under the format when the
\* method returned, the error is logged and the loop goes on when it raised
ExportIteration(export_paths, format_type, attempt) ==
    IF attempt.status = "written"
    THEN [export_paths |-> Put(export_paths, format_type, attempt.path), pc |-> "loop"]
    ELSE [export_paths |-> export_paths, pc |-> "loop"]

-----------------------------------------------------------------------------
(* The exporter instance: package exports and identifier lookups            *)

MaxCards == 3       \* most records in one exported list
MaxLookups == 3     \* most direct get_model_id calls in one behaviour

\* the records that are exported: two standard records of the Quizify
\* template, in the decks D and E, and a cloze record of the Enhanced Cloze
\* template in the deck D, as the generator makes them
CardQD ==
    StandardCard([front |-> <<"q">>, back |-> <<"b", LF, "c">>, tags |-> <<<<"t">>>>,
                  deck |-> <<"D">>],
                 QuizifyTemplate, GenerationConfig("Quizify", "multiple_choice", <<>>))

CardQE ==
    StandardCard([front |-> <<"q">>, back |-> <<"b">>, tags |-> <<>>, deck |-> <<"E">>],
                 QuizifyTemplate, GenerationConfig("Quizify", "multiple_choice", <<>>))

CardEC ==
    _create_cloze_card([content |-> <<"a", "c">>, tags |-> <<<<"t">>, <<"u">>>>,
                        deck |-> <<"D">>, clozes |-> <<Span(1, <<"c">>, <<>>)>>],
                       EnhancedClozeTemplate,
                       GenerationConfig("Enhanced Cloze", "cloze", <<>>))

ExportCards == {CardQD, CardQE}

\* the lists of records handed to export_to_apkg
ExportLists == SeqsOf(ExportCards, 0, MaxCards)

\* the template_name argument: None, or a name
TemplateNames == {<<>>, <<"Enhanced Cloze">>}

\* the names get_model_id is called with directly
LookupNames == {"cloze", "Quizify"}

ExpInit ==
    /\ has_tm \in BOOLEAN
    /\ deck_ids = EmptyMap
    /\ model_cache = EmptyMap
    /\ now = ClockStart
    /\ pkg = <<>>
    /\ id_log = <<>>

\* a call of export_to_apkg without a file name or a timestamp, its arguments
\* drawn from the sets given
ExportToApkgCall(lists, template_names, outcomes) ==
    \E cards \in lists, template_name \in template_names :
        \E made \in {_create_decks_from_cards(deck_ids, model_cache, cards,
                                                template_name)} :
            \E raises \in outcomes :
                \E r \in {PackageWrite(made, FileName(<<>>, now, "apkg"), raises)} :
                    /\ deck_ids' = r.deck_ids
                    /\ model_cache' = r.cache
                    /\ pkg' = <<[cards |-> cards, template_name |-> template_name,
                                 deck_ids_before |-> deck_ids, raised |-> r.raised,
                                 decks |-> r.decks, files |-> r.files]>>
                    /\ UNCHANGED <<has_tm, now, id_log>>

\* any list of records, with or without a template name, written or not
ExportToApkg == ExportToApkgCall(ExportLists, TemplateNames, BOOLEAN)

\* one record exported under its own model name, between two lookups
ExportOneToApkg == ExportToApkgCall({<<CardQD>>, <<CardQE>>}, {<<>>}, {FALSE})

\* a direct call of get_model_id, logged with the cache and the registry it
\* was made under
GetModelId ==
    /\ Len(id_log) < MaxLookups
    /\ \E model_name \in LookupNames :
           id_log' = Append(id_log, [name |-> model_name, id |-> get_model_id(model_name),
                                     cached |-> DOMAIN model_cache,
                                     registered |-> templates])
    /\ UNCHANGED <<has_tm, deck_ids, model_cache, now, pkg>>

\* C5. Deck-id cache: over any sequence of export calls on one exporter the
\* cache only grows (no entry is removed or changed), and every deck container
\* a call builds carries the id the cache holds for its name, which is the id
\* the cache held before the call when the name was already there.
C5_DeckIdCache ==
    /\ [][\A n \in DOMAIN deck_ids :
              n \in DOMAIN deck_ids' /\ deck_ids'[n] = deck_ids[n]]_vars
    /\ [](\A k \in DOMAIN pkg : \A d \in DOMAIN pkg[k].decks :
              LET deck == pkg[k].decks[d]
              IN  /\ deck.name \in DOMAIN deck_ids
                  /\ deck.deck_id = deck_ids[deck.name]
                  /\ deck.name \in DOMAIN pkg[k].deck_ids_before =>
                         deck.deck_id = pkg[k].deck_ids_before[deck.name])

\* a call that looked up a cached deck name and a new one
C5_Witness ==
    \E k \in DOMAIN pkg :
        /\ \E d \in DOMAIN pkg[k].decks :
               pkg[k].decks[d].name \in DOMAIN pkg[k].deck_ids_before
        /\ \E d \in DOMAIN pkg[k].decks :
               pkg[k].decks[d].name \notin DOMAIN pkg[k].deck_ids_before

\* C6. Model-id determinism: a name of the table gets the integer of the
\* table, two calls with the same name return the same integer whatever was
\* exported, cached or registered in between, and a cached model carries the
\* integer a direct call returns for its name.
C6_ModelIdDeterminism ==
    \A i \in DOMAIN id_log :
        /\ id_log[i].name \in DOMAIN MODEL_IDS => id_log[i].id = MODEL_IDS[id_log[i].name]
        /\ \A j \in DOMAIN id_log :
               id_log[j].name = id_log[i].name => id_log[j].id = id_log[i].id
        /\ id_log[i].name \in DOMAIN model_cache =>
               model_cache[id_log[i].name].model_id = id_log[i].id

\* two calls with the same name outside the table, with models cached and a
\* template registered in between, the model of that name among them, and a
\* call with a name of the table
C6_Witness ==
    \E i, j \in DOMAIN id_log :
        /\ i < j
        /\ id_log[i].name = id_log[j].name
        /\ id_log[i].name \notin DOMAIN MODEL_IDS
        /\ id_log[i].cached # id_log[j].cached
        /\ id_log[i].registered # id_log[j].registered
        /\ id_log[i].name \in DOMAIN model_cache
        /\ \E t \in DOMAIN id_log : id_log[t].name \in DOMAIN MODEL_IDS

\* the four hex digits of a 16-bit number, and the eight of an identifier
Hex16(n) ==
    <<HexDigits[((n \div 4096) % 16) + 1], HexDigits[((n \div 256) % 16) + 1],
      HexDigits[((n \div 16) % 16) + 1], HexDigits[(n % 16) + 1]>>

Hex32(id) == Hex16(id.hi) \o Hex16(id.lo)

InUInt32(id) == id.hi \in 0..65535 /\ id.lo \in 0..65535

\* the hex digest an identifier was derived from: of the name for a model, of
\* the deck name for a deck
DerivedIds ==
    {[id |-> id_log[i].id, digest |-> md5_hexdigest(NameChars(id_log[i].name))] :
        i \in {j \in DOMAIN id_log : id_log[j].name \notin DOMAIN MODEL_IDS}}
    \cup {[id |-> deck_ids[d], digest |-> md5_hexdigest(d)] : d \in DOMAIN deck_ids}
    \cup {[id |-> model_cache[n].model_id, digest |-> md5_hexdigest(NameChars(n))] :
             n \in {x \in DOMAIN model_cache : x \notin DOMAIN MODEL_IDS}}

\* C17 (as claimed). Hash truncation: the identifier derived for a name outside
\* the table is the low 32 bits of the digest of the name read as an integer,
\* that is its last eight hex digits, and lies in 0..2^32-1.
C17_HashTruncation_Claimed ==
    \A x \in DerivedIds :
        /\ InUInt32(x.id)
        /\ Hex32(x.id) = SubSeq(x.digest, Len(x.digest) - 7, Len(x.digest))

\* C17 (amended). Hash truncation: the identifier derived for a name outside
\* the table is the integer written by the first eight hex digits of the
\* digest of the name, that is the high 32 bits of the digest read as an
\* integer, and lies in 0..2^32-1.
C17_HashTruncation ==
    \A x \in DerivedIds :
        /\ InUInt32(x.id)
        /\ Len(x.digest) = 32
        /\ Hex32(x.id) = SubSeq(x.digest, 1, 8)

\* a model id and a deck id were derived, one of them above 2^31
C17_Witness ==
    /\ \E i \in DOMAIN id_log : id_log[i].name \notin DOMAIN MODEL_IDS
    /\ DOMAIN deck_ids # {}
    /\ \E x \in DerivedIds : x.id.hi >= 32768

RECURSIVE NoteCount(_)
NoteCount(decks) ==
    IF decks = <<>> THEN 0 ELSE Len(Head(decks).notes) + NoteCount(Tail(decks))

\* C7. Package grouping: a package export that did not raise writes one
\* package; its deck containers have distinct names, which are exactly the
\* deck names of the records; every record has exactly one note, in the
\* container of its own deck; the note counts sum to the number of records.
C7_PackageGrouping ==
    \A k \in DOMAIN pkg :
        ~pkg[k].raised =>
            /\ Len(pkg[k].files) = 1
            /\ LET cards == pkg[k].cards
                   decks == pkg[k].files[1].content.decks
               IN  /\ \A a, b \in DOMAIN decks : decks[a].name = decks[b].name => a = b
                   /\ {decks[a].name : a \in DOMAIN decks}
                          = {cards[c].deck : c \in DOMAIN cards}
                   /\ \A c \in DOMAIN cards :
                          /\ Cardinality({<<a, n>> \in (DOMAIN decks) \X (1..Len(cards)) :
                                 /\ n \in DOMAIN decks[a].notes
                                 /\ decks[a].notes[n].card = c}) = 1
                          /\ \A a \in DOMAIN decks : \A n \in DOMAIN decks[a].notes :
                                 decks[a].notes[n].card = c =>
                                     decks[a].name = cards[c].deck
                   /\ NoteCount(decks) = Len(cards)

\* a written package of three or more records over two decks and one model
C7_Witness ==
    \E k \in DOMAIN pkg :
        /\ ~pkg[k].raised
        /\ Len(pkg[k].cards) >= 3
        /\ Cardinality({pkg[k].cards[c].deck : c \in DOMAIN pkg[k].cards}) = 2
        /\ Cardinality({pkg[k].cards[c].model : c \in DOMAIN pkg[k].cards}) = 1
        /\ Len(pkg[k].files[1].content.decks) = 2

\* the notes of the decks a call built
NotesOfDecks(decks) ==
    UNION {Range(decks[d].notes) : d \in DOMAIN decks}

\* the field names a template declares, in order
FieldNamesInOrder(t) == [k \in 1..Len(t.fields) |-> t.fields[k].name]

\* C18 (as claimed). Note / note-type agreement under caching: whatever was
\* exported and registered before, every note a package export builds has one
\* value per field of the note type it is attached to, and a note type taken
\* for a registered name has the field list of the registry's current
\* definition of that name.
C18_NoteTypeAgreement ==
    [][pkg' # pkg =>
          \A k \in DOMAIN pkg' : \A note \in NotesOfDecks(pkg'[k].decks) :
              /\ Len(note.fields) = Len(note.model.fields)
              /\ (has_tm /\ note.model.name \in DOMAIN templates') =>
                     note.model.fields = FieldNamesInOrder(templates'[note.model.name])]_vars

-----------------------------------------------------------------------------
(* One export_multiple_formats call, format by format, beside the clock     *)

MaxFormats == 3     \* most formats in one request
MaxTicks == 1       \* seconds the clock advances in one behaviour

FormatNames == {"json", "csv", "apkg", "txt", "html", "badformat"}

\* the lists of records handed to the call
ExportBatches == {<<>>, <<CardQD, CardQE>>, <<CardQD, CardEC>>}

\* the original_content that is handed in with a list: None with the empty
\* list, the text of the first record otherwise
OriginalContentOf(cards) == IF cards = <<>> THEN <<>> ELSE <<cards[1].front>>

EmfInit ==
    /\ e_pc = "idle"
    /\ e_cards = <<>>
    /\ e_original_content = <<>>
    /\ e_formats = <<>>
    /\ e_template_name = <<>>
    /\ e_timestamp = <<>>
    /\ e_started = ClockStart
    /\ e_i = 1
    /\ e_export_paths = EmptyMap
    /\ e_files = <<>>
    /\ e_log = <<>>

\* the call up to the loop: the timestamp is read from the clock
ExportStart ==
    /\ e_pc = "idle"
    /\ \E cards \in ExportBatches, formats \in SeqsOf(FormatNames, 0, MaxFormats),
          template_name \in TemplateNames :
           /\ e_cards' = cards
           /\ e_original_content' = OriginalContentOf(cards)
           /\ e_formats' = formats
           /\ e_template_name' = template_name
    /\ e_timestamp' = strftime(now)
    /\ e_started' = now
    /\ e_pc' = "loop"
    /\ UNCHANGED <<e_i, e_export_paths, e_files, e_log>>
    /\ UNCHANGED <<has_tm, deck_ids, model_cache, now, pkg, id_log>>

\* one iteration of `for format_type in formats`
ExportFormat ==
    /\ e_pc = "loop"
    /\ e_i <= Len(e_formats)
    /\ \E raises \in BOOLEAN :
           \E attempt \in {ExportAttempt(e_formats[e_i], deck_ids, model_cache, e_cards,
                                          e_original_content, e_template_name,
                                          e_timestamp, now, raises)} :
           \E it \in {ExportIteration(e_export_paths, e_formats[e_i], attempt)} :
               /\ e_export_paths' = it.export_paths
               /\ e_pc' = it.pc
               /\ e_log' = Append(e_log, attempt.status)
               /\ e_files' = e_files \o attempt.files
               /\ deck_ids' = attempt.deck_ids
               /\ model_cache' = attempt.cache
    /\ e_i' = e_i + 1
    /\ UNCHANGED <<e_cards, e_original_content, e_formats, e_template_name, e_timestamp,
                   e_started>>
    /\ UNCHANGED <<has_tm, now, pkg, id_log>>

\* `return export_paths`
ExportReturn ==
    /\ e_pc = "loop"
    /\ e_i > Len(e_formats)
    /\ e_pc' = "returned"
    /\ UNCHANGED <<e_cards, e_original_content, e_formats, e_template_name, e_timestamp,
                   e_started, e_i, e_export_paths, e_files, e_log>>
    /\ UNCHANGED <<has_tm, deck_ids, model_cache, now, pkg, id_log>>

\* a second passes
Tick ==
    /\ SecondsOfDay(now) - SecondsOfDay(ClockStart) < MaxTicks
    /\ now' = NextSecond(now)
    /\ UNCHANGED <<has_tm, deck_ids, model_cache, pkg, id_log>>
    /\ UNCHANGED <<e_pc, e_cards, e_original_content, e_formats, e_template_name,
                   e_timestamp, e_started, e_i, e_export_paths, e_files, e_log>>

\* C3. Export partial failure: the call never ends with the error of a
\* format; every requested format is gone through; the mapping returned has a
\* key for a format exactly when one of its attempts was written, so that an
\* unsupported name and a format whose every attempt raised are left out.
C3_ExportPartialFailure ==
    /\ e_pc # "raised"
    /\ e_pc = "returned" =>
           /\ Len(e_log) = Len(e_formats)
           /\ \A k \in DOMAIN e_log :
                  /\ e_log[k] = "skipped" <=> e_formats[k] \notin DOMAIN FORMAT_METHODS
                  /\ e_log[k] \in {"written", "raised", "skipped"}
           /\ DOMAIN e_export_paths
                  = {e_formats[k] : k \in {j \in DOMAIN e_log : e_log[j] = "written"}}

\* the request json, csv, badformat answered with the keys json and csv, and
\* a request whose first format raised and whose later one was written
C3_Witness ==
    /\ e_pc = "returned"
    /\ \/ /\ e_formats = <<"json", "csv", "badformat">>
          /\ DOMAIN e_export_paths = {"json", "csv"}
       \/ /\ Len(e_log) >= 2
          /\ e_log[1] = "raised"
          /\ e_log[2] = "written"

\* C9. Single shared timestamp: the timestamp of a call is the time at which
\* the call began, whatever the clock shows later, and every file the call
\* has written is named anki_cards_<timestamp>.<format>.
C9_SharedTimestamp ==
    e_pc # "idle" =>
        /\ e_timestamp = strftime(e_started)
        /\ \A k \in DOMAIN e_files :
               e_files[k].name = FilePrefix \o e_timestamp \o <<".">>
                                     \o NameChars(e_files[k].format)

\* a call that wrote two files or more and had a format fail, with the clock
\* no longer at the second the call began in
C9_Witness ==
    /\ e_pc = "returned"
    /\ Len(e_files) >= 2
    /\ \E k \in DOMAIN e_log : e_log[k] = "raised"
    /\ now # e_started
    /\ e_files[Len(e_files)].format = "csv"

\* C10 (as claimed). Tabular dump layout: the first three rows are the three
\* directives, one per row; row 4 is the sorted union of the field names of
\* the records; the data rows, one per record, start at row 5.
C10_TabularLayout ==
    \A k \in DOMAIN e_files :
        e_files[k].format = "csv" =>
            LET rows == e_files[k].content.rows
            IN  /\ Len(rows) = 4 + Len(e_cards)
                /\ rows[1] = <<"#separator:tab">>
                /\ rows[2] = <<"#html:true">>
                /\ rows[3] = <<"#tags column:4">>
                /\ rows[4] = sorted(UNION {DOMAIN e_cards[c].fields : c \in DOMAIN e_cards})
                /\ \A c \in DOMAIN e_cards : Len(rows[4 + c]) = Len(rows[4])

-----------------------------------------------------------------------------
(* ContentSplitter, and BatchCardGenerator.generate_from_file on a card      *)
(* generator that is handed in: its generate_cards is the generator of the  *)
(* pipeline, or any object that answers with a list.                        *)

Tab == "\t"

\* the characters str.strip() removes and \s matches
IsSpace(c) == c \in {" ", LF, CR, Tab}

RECURSIVE LStrip(_)
LStrip(s) == IF s # <<>> /\ IsSpace(Head(s)) THEN LStrip(Tail(s)) ELSE s

RECURSIVE RStrip(_)
RStrip(s) ==
    IF s # <<>> /\ IsSpace(s[Len(s)]) THEN RStrip(SubSeq(s, 1, Len(s) - 1)) ELSE s

\* str.strip()
Strip(s) == RStrip(LStrip(s))

\* str.split(sep)
RECURSIVE Split(_, _)
Split(s, sep) ==
    IF Find(s, sep) = 0 THEN <<s>>
    ELSE <<SubSeq(s, 1, Find(s, sep) - 1)>>
         \o Split(SubSeq(s, Find(s, sep) + Len(sep), Len(s)), sep)

\* [p.strip() for p in parts if p.strip()]
StrippedNonEmpty(parts) ==
    SelectSeq([k \in 1..Len(parts) |-> Strip(parts[k])], LAMBDA x : x # <<>>)

split_text_content(content) == StrippedNonEmpty(Split(content, <<LF, LF>>))

\* the end of the run of c that starts at i (the first index after it)
RECURSIVE RunEnd(_, _, _)
RunEnd(s, i, c) == IF i <= Len(s) /\ s[i] = c THEN RunEnd(s, i + 1, c) ELSE i

RECURSIVE SpaceEnd(_, _)
SpaceEnd(s, i) == IF i <= Len(s) /\ IsSpace(s[i]) THEN SpaceEnd(s, i + 1) ELSE i

\* where a match of ^#{1,6}\s+ (re.MULTILINE) that starts at i ends (the first
\* index after it), 0 when none starts there
HeadingEnd(s, i) ==
    IF /\ (i = 1 \/ s[i - 1] = LF)
       /\ s[i] = "#"
       /\ RunEnd(s, i, "#") - i <= 6
       /\ RunEnd(s, i, "#") <= Len(s)
       /\ IsSpace(s[RunEnd(s, i, "#")])
    THEN SpaceEnd(s, RunEnd(s, i, "#"))
    ELSE 0

\* re.split(r'^#{1,6}\s+', content, flags=re.MULTILINE), scanning from i with
\* the current piece starting at `start`
RECURSIVE HeadingPieces(_, _, _)
HeadingPieces(s, i, start) ==
    IF i > Len(s) THEN <<SubSeq(s, start, Len(s))>>
    ELSE IF HeadingEnd(s, i) # 0
    THEN <<SubSeq(s, start, i - 1)>>
         \o HeadingPieces(s, HeadingEnd(s, i), HeadingEnd(s, i))
    ELSE HeadingPieces(s, i + 1, start)

split_markdown_content(content) == StrippedNonEmpty(HeadingPieces(content, 1, 1))

\* the chunks generate_from_file hands to generate_batch
SplitByExtension(extension, content) ==
    IF extension = "txt" THEN split_text_content(content)
    ELSE IF extension = "md" THEN split_markdown_content(content)
    ELSE <<content>>

\* the check of generate_from_file on what generate_batch returned
SourceCheck(cards) ==
    IF cards # <<>> /\ ~IsCardData(cards[1])
    THEN [pc |-> "raised", error |-> "UnexpectedResultType", cards |-> <<>>]
    ELSE [pc |-> "returned", error |-> "", cards |-> cards]

\* the texts of the files: empty, one paragraph, two paragraphs (with one and
\* with two blank lines between them), blank only, two headings, a paragraph
\* before a heading, a heading mark without a space
FileTexts ==
    { <<>>,
      <<"p">>,
      <<"p", LF, LF, "p">>,
      <<"p", LF, LF, LF, LF, "p">>,
      <<" ", LF, LF, " ">>,
      <<"#", " ", "p", LF, "#", "#", " ", "p">>,
      <<"p", LF, "#", " ", "p">>,
      <<"#", "p">> }

FileExtensions == {"txt", "md", "json"}

\* a list of raw items, as a generator that skips the conversion returns it,
\* and a list whose first element only is a record
ForeignItem == [front |-> <<"q">>, back |-> <<"b">>]

ForeignResults ==
    { <<ForeignItem>>,
      <<_create_cloze_card([content |-> <<"a", "c">>, tags |-> <<>>, deck |-> <<"D">>],
                           QuizifyTemplate, GenerationConfig("Quizify", "cloze", <<>>)),
        ForeignItem>> }

SrcInit ==
    /\ f_pc = "idle"
    /\ f_path = ""
    /\ f_text = <<>>
    /\ f_cards = <<>>
    /\ f_error = ""

\* the call up to the loop of generate_batch: the file is read (which raises
\* when it cannot be opened) and split, and generate_batch begins
SourceStart ==
    /\ f_pc = "idle"
    /\ b_pc = "idle"
    /\ \E extension \in FileExtensions, content \in FileTexts, readable \in BOOLEAN,
          config \in BatchConfigs :
           /\ f_path' = extension
           /\ f_text' = content
           /\ b_config' = config
           /\ IF readable
              THEN /\ f_pc' = "batch"
                   /\ f_error' = ""
                   /\ b_contents' = SplitByExtension(extension, content)
                   /\ b_pc' = "loop"
              ELSE /\ f_pc' = "raised"
                   /\ f_error' = "FileNotFoundError"
                   /\ b_contents' = <<>>
                   /\ b_pc' = "idle"
    /\ b_i' = 1
    /\ b_all_cards' = <<>>
    /\ b_log' = <<>>
    /\ UNCHANGED f_cards

\* one iteration of generate_batch on a generator that answers with a list
\* that is not a list of records
BatchChunkForeign ==
    /\ b_pc = "loop"
    /\ b_i <= Len(b_contents)
    /\ \E cards \in ForeignResults :
           \E outcome \in {Returned(cards, "none")} :
           \E next \in {BatchIteration(b_all_cards, outcome)} :
               /\ b_log' = Append(b_log, outcome)
               /\ b_all_cards' = next.all_cards
               /\ b_pc' = next.pc
    /\ b_i' = b_i + 1
    /\ UNCHANGED <<b_contents, b_config>>

\* generate_batch has returned: the check, and the return or the raise
SourceEnd ==
    /\ f_pc = "batch"
    /\ b_pc = "returned"
    /\ \E r \in {SourceCheck(b_all_cards)} :
           /\ f_pc' = r.pc
           /\ f_error' = r.error
           /\ f_cards' = r.cards
    /\ UNCHANGED <<f_path, f_text>>

\* a result that is not empty and whose first element is no record
BadResult(outcome) ==
    ~outcome.raised /\ outcome.cards # <<>> /\ ~IsCardData(outcome.cards[1])

\* C11 (as claimed). UnexpectedResultType: when a synthesis step returned a
\* non-empty result whose first element is no record, generate_from_file
\* raises UnexpectedResultType: it does not return, so the result is neither
\* dropped nor handed to the caller.
C11_UnexpectedResultType ==
    (f_pc \in {"returned", "raised"} /\ \E k \in DOMAIN b_log : BadResult(b_log[k])) =>
        /\ f_pc = "raised"
        /\ f_error = "UnexpectedResultType"

-----------------------------------------------------------------------------
(* generate_batch call by call: the start of a generate_cards call and its  *)
(* answer are two steps, the await between them being where the coroutine   *)
(* is suspended.                                                            *)

\* the answers of the collaborator in these runs
SeqResponses ==
    { LLMRaises, LLMReturns(<<>>),
      LLMReturns(<<[content |-> <<"a", "c">>, tags |-> <<>>, deck |-> <<"D">>]>>) }

\* a loop that starts the calls of all the chunks left before it awaits one
AwaitedCalls_Gather(i, n) == [k \in 1..(n - i + 1) |-> i + k - 1]

\* `await self.card_generator.generate_cards(content, config)` in the
\* iteration of chunk i of n: the calls the statement starts, in order
AwaitedCalls(i, n) == <<i>>

SeqInit ==
    /\ b_inflight = {}
    /\ b_started = <<>>

\* the iteration of chunk b_i up to the await: the call is started
ChunkCall ==
    /\ b_pc = "loop"
    /\ b_i <= Len(b_contents)
    /\ b_i \notin b_inflight
    /\ \E calls \in {AwaitedCalls(b_i, Len(b_contents))} :
           /\ b_inflight' = b_inflight \cup Range(calls)
           /\ b_started' = b_started \o calls
    /\ UNCHANGED <<b_contents, b_config, b_i, b_all_cards, b_log, b_pc>>

\* the awaited call returns or raises, and the iteration handles it
ChunkAnswer ==
    /\ b_pc = "loop"
    /\ b_i \in b_inflight
    /\ \E prompt_found \in BOOLEAN, response \in SeqResponses :
           \E outcome \in {generate_cards(b_config, prompt_found, response)} :
           \E next \in {BatchIteration(b_all_cards, outcome)} :
               /\ b_log' = Append(b_log, outcome)
               /\ b_all_cards' = next.all_cards
               /\ b_pc' = next.pc
    /\ b_inflight' = b_inflight \ {b_i}
    /\ b_i' = b_i + 1
    /\ UNCHANGED <<b_contents, b_config, b_started>>

\* every call so far was started in chunk order, once, and only after the
\* call before it was answered
SequentialCalls ==
    /\ b_pc # "raised"
    /\ Cardinality(b_inflight) <= 1
    /\ \A k \in DOMAIN b_started : b_started[k] = k
    /\ Len(b_started) = Len(b_log) + Cardinality(b_inflight)
    /\ Len(b_started) <= Len(b_contents)
    /\ b_pc = "returned" =>
           /\ b_inflight = {}
           /\ Len(b_started) = Len(b_contents)
           /\ Len(b_log) = Len(b_contents)

\* C19. Strictly sequential batch: generate_cards is called once per chunk, in
\* chunk order, a call being started only when the call before it has
\* returned or raised; a chunk that failed is followed by the next chunk; and
\* the loop ends with the return after the last chunk, whatever failed.
C19_SequentialBatch ==
    /\ []SequentialCalls
    /\ (b_pc = "loop") ~> (b_pc = "returned")

\* a batch of three chunks returned, every chunk having failed
C19_Witness ==
    /\ b_pc = "returned"
    /\ Len(b_contents) = 3
    /\ b_started = <<1, 2, 3>>
    /\ \A k \in DOMAIN b_log : b_log[k].raised
    /\ {b_log[k].error : k \in DOMAIN b_log} = {"GenerationFailed", "PromptNotFound"}

-----------------------------------------------------------------------------
(* UnifiedExporter.get_export_summary, and direct export_to_json calls      *)

\* the lists of records a summary is asked of
SummaryLists == SeqsOf({CardQD, CardQE, CardEC}, 0, MaxCards)

OutInit ==
    /\ summary = <<>>
    /\ json_out = <<>>

\* an aggregation that marks a key as seen instead of counting it
Counted_Marked(stats, key) == Put(stats, key, 1)

\* stats[key] = stats.get(key, 0) + 1
Counted(stats, key) == Put(stats, key, Get(stats, key, 0) + 1)

\* `for card in cards`, from record k on
RECURSIVE SummaryLoop(_, _, _, _)
SummaryLoop(cards, k, deck_stats, model_stats) ==
    IF k > Len(cards)
    THEN [total_cards |-> Len(cards), deck_stats |-> deck_stats,
          model_stats |-> model_stats]
    ELSE SummaryLoop(cards, k + 1, Counted(deck_stats, cards[k].deck),
                     Counted(model_stats, cards[k].model))

get_export_summary(cards) ==
    IF cards = <<>>
    THEN [total_cards |-> 0, deck_stats |-> EmptyMap, model_stats |-> EmptyMap]
    ELSE SummaryLoop(cards, 1, EmptyMap, EmptyMap)

\* a call of get_export_summary on the exporter instance
GetExportSummary ==
    /\ \E cards \in SummaryLists :
           summary' = <<[cards |-> cards, result |-> get_export_summary(cards)]>>
    /\ UNCHANGED <<has_tm, deck_ids, model_cache, now, pkg, id_log, json_out>>

\* the sum of the values of a mapping
RECURSIVE MapSum(_)
MapSum(stats) ==
    IF DOMAIN stats = {} THEN 0
    ELSE LET key == CHOOSE x \in DOMAIN stats : TRUE
         IN  stats[key] + MapSum([x \in DOMAIN stats \ {key} |-> stats[x]])

\* the summary r is the aggregation of cards
SummaryOf(cards, r) ==
    /\ r.total_cards = Len(cards)
    /\ DOMAIN r.deck_stats = {cards[k].deck : k \in DOMAIN cards}
    /\ DOMAIN r.model_stats = {cards[k].model : k \in DOMAIN cards}
    /\ \A d \in DOMAIN r.deck_stats :
           r.deck_stats[d] = Cardinality({k \in DOMAIN cards : cards[k].deck = d})
    /\ \A n \in DOMAIN r.model_stats :
           r.model_stats[n] = Cardinality({k \in DOMAIN cards : cards[k].model = n})
    /\ MapSum(r.deck_stats) = r.total_cards
    /\ MapSum(r.model_stats) = r.total_cards

\* C15. Export summary: get_export_summary(cards) returns total_cards = the
\* number of records, and a count per deck and a count per model whose keys
\* are exactly the distinct deck names and model names of the records, each
\* value the number of records of that key, the values of either adding up to
\* total_cards; the call leaves the caches of the exporter as they were.
C15_ExportSummary ==
    /\ [](summary # <<>> => SummaryOf(summary[1].cards, summary[1].result))
    /\ [][summary' # summary => /\ deck_ids' = deck_ids
                                /\ model_cache' = model_cache]_vars

\* the summary of three records in two decks and of two models, on an
\* exporter whose caches were filled by an export
C15_Witness ==
    /\ summary # <<>>
    /\ summary[1].cards = <<CardQD, CardQE, CardEC>>
    /\ summary[1].result.total_cards = 3
    /\ summary[1].result.deck_stats[<<"D">>] = 2
    /\ summary[1].result.model_stats["Quizify"] = 2
    /\ DOMAIN deck_ids # {}
    /\ DOMAIN model_cache # {}

MaxOver == 3        \* most characters an original_content has beyond the preview

\* the lengths of original_content: around the length of the preview
OriginalLengths ==
    {0, 1, PreviewLength - 1, PreviewLength, PreviewLength + 1, PreviewLength + MaxOver}

\* a text of n characters
ContentOfLength(n) ==
    [k \in 1..n |-> CASE k % 3 = 1 -> "a" [] k % 3 = 2 -> "b" [] OTHER -> "c"]

\* the original_content argument: None, or a text
OriginalContents == {<<>>} \cup {<<ContentOfLength(n)>> : n \in OriginalLengths}

\* a direct call of export_to_json without a file name or a timestamp
ExportToJson ==
    /\ \E cards \in ExportLists, original_content \in OriginalContents, raises \in BOOLEAN :
           json_out' = <<[cards |-> cards, original_content |-> original_content,
                          result |-> export_to_json(cards, original_content, <<>>, now,
                                                    raises)]>>
    /\ UNCHANGED <<has_tm, deck_ids, model_cache, now, pkg, id_log, summary>>

\* the content_preview of the metadata written by the last call
WrittenPreview == json_out[1].result.files[1].content.content_preview

JsonWritten == json_out # <<>> /\ ~json_out[1].result.raised

\* the preview is None for no content, the content when that has at most
\* PreviewLength characters, and its first PreviewLength characters followed
\* by the ellipsis otherwise
PreviewOf(original_content, preview) ==
    IF original_content = <<>> \/ original_content[1] = <<>> THEN preview = <<>>
    ELSE /\ preview # <<>>
         /\ Len(preview[1]) <= PreviewLength + Len(Ellipsis)
         /\ Len(original_content[1]) <= PreviewLength => preview[1] = original_content[1]
         /\ Len(original_content[1]) > PreviewLength =>
                preview[1] = SubSeq(original_content[1], 1, PreviewLength) \o Ellipsis

\* C16 as claimed. Preview clipping: the content preview stored in the
\* metadata of the structured-data dump is never longer than 200 characters,
\* for an original_content of any length.
C16_PreviewClipping_Claimed ==
    JsonWritten => WrittenPreview = <<>> \/ Len(WrittenPreview[1]) <= PreviewLength

\* C16. Preview clipping: the content preview stored in the metadata of the
\* structured-data dump is never longer than 203 characters: it is the
\* original_content itself when that has at most 200 characters, and its
\* first 200 characters followed by "..." when it is longer (None when there
\* is no content).
C16_PreviewClipping ==
    JsonWritten => PreviewOf(json_out[1].original_content, WrittenPreview)

\* a dump written for a content of 201 characters, clipped and marked
C16_Witness ==
    /\ JsonWritten
    /\ json_out[1].original_content # <<>>
    /\ WrittenPreview # <<>>
    /\ Len(json_out[1].original_content[1]) = PreviewLength + 1
    /\ Len(WrittenPreview[1]) = PreviewLength + Len(Ellipsis)
    /\ json_out[1].cards # <<>>

-----------------------------------------------------------------------------
(* The notes of the packages written by export_multiple_formats             *)

\* the value a field of a note holds when it is filled from the record's
\* attributes alone: the body, the back content, the deck, the joined tags,
\* and the declared default for any other name
AttributeValue(card, field) ==
    CASE field.name \in {"Front", "Text", "Content"} -> card.front
      [] field.name \in {"Back", "Back Extra"}       -> card.back
      [] field.name = "Deck"                         -> card.deck
      [] field.name = "Tags"                         -> Join(card.tags, Space)
      [] OTHER                                       -> field.default_value

\* the notes of the packages the call has written, each with the list it
\* was made from
WrittenNotes ==
    UNION { UNION { Range(e_files[k].content.decks[d].notes) :
                      d \in DOMAIN e_files[k].content.decks } :
              k \in {x \in DOMAIN e_files : e_files[x].format = "apkg"} }

\* C21. Package note field mapping: in a note built from a template
\* definition, a field named Front, Text or Content holds the record's body
\* (front), a field named Back or Back Extra the record's back content, Deck
\* and Tags the record's deck and its space-joined tags, and a field of any
\* other name the default value the template declares (each value with its
\* newlines normalized).
C21_NoteFieldMapping ==
    \A note \in WrittenNotes :
        note.model.name \in DOMAIN templates =>
            \A f \in DOMAIN templates[note.model.name].fields :
                note.fields[f] =
                    normalize_newlines_for_anki(
                        AttributeValue(e_cards[note.card],
                                       templates[note.model.name].fields[f]))

-----------------------------------------------------------------------------
(* The request kind and the deck name of one generate_cards call            *)

\* the request kind of a call, as the enhanced-cloze template the registry
\* loads would upgrade it
UpgradedKind(config) ==
    IF config.template_name = EnhancedClozeTemplate.name /\ config.prompt_type = "cloze"
    THEN "enhanced_cloze"
    ELSE config.prompt_type

\* C22. Request kind and schema selection: the effective request kind is
\* 'enhanced_cloze' exactly when the template name is the name of the
\* enhanced-cloze template and the requested kind is 'cloze', and the
\* requested kind in every other case; the collaborator is invoked exactly
\* once per call, with the cloze schema iff the effective kind is 'cloze' or
\* 'enhanced_cloze', and with the standard schema otherwise.
C22_RequestKind ==
    \A k \in DOMAIN synth :
        /\ get_effective_prompt_type(synth[k].config) = UpgradedKind(synth[k].config)
        /\ synth[k].outcome.llm_calls = 1
        /\ synth[k].outcome.schema =
               IF UpgradedKind(synth[k].config) \in {"cloze", "enhanced_cloze"}
               THEN "cloze" ELSE "standard"

\* C23. Deck-name resolution: every record returned by one generate_cards
\* call has the deck config.custom_deck_name when that is set, and otherwise
\* the deck value of the item of the collaborator it was built from; in both
\* cases the entry Deck of its fields equals its deck attribute.
C23_DeckNameResolution ==
    \A c \in DOMAIN synth :
        ~synth[c].outcome.raised =>
            /\ Len(synth[c].outcome.cards) = Len(synth[c].response.cards)
            /\ \A k \in DOMAIN synth[c].outcome.cards :
                   /\ synth[c].config.custom_deck_name # <<>> =>
                          synth[c].outcome.cards[k].deck = synth[c].config.custom_deck_name
                   /\ synth[c].config.custom_deck_name = <<>> =>
                          synth[c].outcome.cards[k].deck = synth[c].response.cards[k].deck
                   /\ synth[c].outcome.cards[k].fields["Deck"] =
                          synth[c].outcome.cards[k].deck

\* two records of one call that carry the custom deck name, made from items
\* of two other decks
C23_Witness ==
    /\ synth # <<>>
    /\ ~synth[1].outcome.raised
    /\ synth[1].config.custom_deck_name = <<"K">>
    /\ Len(synth[1].outcome.cards) = 2
    /\ {Get(synth[1].response.cards[k], "deck", <<>>) : k \in 1..2} = {<<"D">>, <<"E">>}
    /\ \A k \in 1..2 : synth[1].outcome.cards[k].deck = <<"K">>

-----------------------------------------------------------------------------
(* The order in which process_cloze_content applies the spans               *)

\* the orders of n spans: the sequences that hold each index once
OrdersOf(n) == {p \in [1..n -> 1..n] : \A i, j \in 1..n : p[i] = p[j] => i = j}

\* order p takes the spans by descending position value, spans of equal
\* value, and so the spans without a position, in their input order
DescendingOrder(clozes, p) ==
    \A i, j \in DOMAIN p :
        i < j => \/ PositionKey(clozes[p[i]]) > PositionKey(clozes[p[j]])
                 \/ /\ PositionKey(clozes[p[i]]) = PositionKey(clozes[p[j]])
                    /\ p[i] < p[j]

\* the text after the spans p[i], p[i+1], ... were applied to it in turn,
\* each as one replacement of the first occurrence of its text by its marker
RECURSIVE AppliedInOrder(_, _, _, _)
AppliedInOrder(text, clozes, p, i) ==
    IF i > Len(p) THEN text
    ELSE AppliedInOrder(ReplaceFirst(text, clozes[p[i]].text, ClozeFormat(clozes[p[i]])),
                        clozes, p, i + 1)

OrderLen == 2       \* longest content of the calls that are checked for their order

\* the spans of a call numbered as they come: the k-th span has the id k, a
\* text occurring verbatim in the content, an optional hint, and either no
\* position or the 0-based offset of an occurrence of its text
NumberedSpans(content, k) == {c \in ClozesOf(content) : c.id = k}

RECURSIVE NumberedClozesOfLen(_, _)
NumberedClozesOfLen(content, n) ==
    IF n = 0 THEN {<<>>}
    ELSE {Append(clozes, c) : clozes \in NumberedClozesOfLen(content, n - 1),
                              c \in NumberedSpans(content, n)}

NumberedClozesOf(content) == UNION {NumberedClozesOfLen(content, n) : n \in 0..MaxSpans}

OrderInit ==
    /\ cz_content \in SeqsOf(CzChars, 1, OrderLen)
    /\ cz_clozes \in NumberedClozesOf(cz_content)
    /\ cz_out = <<>>
    /\ cz_pc = "args"

\* C24. Rewrite order: process_cloze_content applies the spans in descending
\* order of their position value, each as a single replacement of the first
\* occurrence of its text, in the text produced so far, by the marker
\* {{c<id>::<text>}} (or {{c<id>::<text>::<hint>}} with a non-empty hint);
\* spans that carry no position are applied in their input order; with an
\* empty span list the content is returned unchanged.
C24_RewriteOrder ==
    cz_pc = "returned" =>
        /\ cz_clozes = <<>> => cz_out = cz_content
        /\ \E p \in OrdersOf(Len(cz_clozes)) :
               /\ DescendingOrder(cz_clozes, p)
               /\ cz_out = AppliedInOrder(cz_content, cz_clozes, p, 1)

\* two spans given in ascending order of their positions: the later one was
\* applied first, which the text returned shows
C24_Witness ==
    /\ cz_pc = "returned"
    /\ Len(cz_clozes) = 2
    /\ cz_clozes[1].position = <<0>>
    /\ cz_clozes[2].position = <<1>>
    /\ cz_out = AppliedInOrder(cz_content, cz_clozes, <<2, 1>>, 1)
    /\ cz_out # AppliedInOrder(cz_content, cz_clozes, <<1, 2>>, 1)

-----------------------------------------------------------------------------
(* TextProcessor.normalize_newlines_for_anki on its own, and on the values  *)
(* of a note                                                                *)

MaxText == 3        \* longest value that is normalized

\* the characters of the values: the line ends, the two characters of the
\* escape sequence, and a letter
NlChars == {CR, LF, Backslash, "n", "a"}

\* the value handed in: None, or a text
NlValues == {<<>>} \cup {<<text>> : text \in SeqsOf(NlChars, 0, MaxText)}

Br == <<"<", "b", "r", ">">>

NlInit ==
    /\ nl_value = <<>>
    /\ nl_out = <<>>

\* the function on a value that is <<>> for None and <<text>> otherwise:
\* `if text is None: return ""`
normalize_value(value) ==
    IF value = <<>> THEN <<>> ELSE normalize_newlines_for_anki(value[1])

\* a call of normalize_newlines_for_anki; the function keeps no state, so
\* one call per behaviour covers every call
NormalizeNewlines ==
    /\ nl_out = <<>>
    /\ \E value \in NlValues :
           /\ nl_value' = value
           /\ nl_out' = <<normalize_value(value)>>

\* a record whose body and back content are the text
TextCard(text) ==
    StandardCard([front |-> text, back |-> text, tags |-> <<>>, deck |-> <<"D">>],
                 QuizifyTemplate, GenerationConfig("Quizify", "multiple_choice", <<>>))

\* the package export of a record that holds the text normalized last
ExportNormalized ==
    /\ nl_value # <<>>
    /\ pkg = <<>>
    /\ ExportToApkgCall({<<TextCard(nl_value[1])>>}, TemplateNames, {FALSE})

\* the text read from index i on, every line end (CR LF, CR, LF) and every
\* escape sequence replaced by the line-break markup
RECURSIVE LineBreaksFrom(_, _)
LineBreaksFrom(s, i) ==
    IF i > Len(s) THEN <<>>
    ELSE IF MatchAt(s, <<CR, LF>>, i) \/ MatchAt(s, <<Backslash, "n">>, i)
    THEN Br \o LineBreaksFrom(s, i + 2)
    ELSE IF s[i] \in {CR, LF} THEN Br \o LineBreaksFrom(s, i + 1)
    ELSE <<s[i]>> \o LineBreaksFrom(s, i + 1)

\* no carriage return, no newline and no escape sequence is left
NoLineEnds(s) ==
    /\ \A k \in DOMAIN s : s[k] \notin {CR, LF}
    /\ ~Contains(s, <<Backslash, "n">>)

\* the field values of the notes of the last package
PackagedValues ==
    UNION { UNION { UNION { Range(pkg[k].decks[d].notes[n].fields) :
                              n \in DOMAIN pkg[k].decks[d].notes } :
                      d \in DOMAIN pkg[k].decks } :
              k \in DOMAIN pkg }

\* C25. Newline normalization: every field value inserted into a package
\* note contains no carriage return, no newline character and no literal
\* two-character backslash-n sequence, each of these having been replaced by
\* the <br> markup; normalizing a normalized value leaves it unchanged; and a
\* missing (None) value becomes the empty string.
C25_NewlineNormalization ==
    /\ \A k \in DOMAIN nl_out :
           /\ NoLineEnds(nl_out[k])
           /\ nl_value = <<>> => nl_out[k] = <<>>
           /\ nl_value # <<>> => nl_out[k] = LineBreaksFrom(nl_value[1], 1)
           /\ normalize_newlines_for_anki(nl_out[k]) = nl_out[k]
    /\ \A value \in PackagedValues : NoLineEnds(value)
    /\ \A k \in DOMAIN pkg :
           \A value \in {LineBreaksFrom(pkg[k].cards[1].front, 1)} :
               value \in PackagedValues

\* a value with an escape sequence and a carriage return, normalized to two
\* line breaks, and packaged
C25_Witness ==
    /\ nl_value = <<<<Backslash, "n", CR>>>>
    /\ nl_out = <<Br \o Br>>
    /\ pkg # <<>>
    /\ Br \o Br \in PackagedValues

-----------------------------------------------------------------------------
(* CardMergeProcessor.merge_card_data (src/src/web/business_logic.py).  The *)
(* dictionaries are objects of a heap, and a dictionary holds its nested    *)
(* dictionary by reference, so that what a shallow copy shares is explicit. *)

MaxSources == 2     \* most sources in one merge
MaxPerSource == 2   \* most cards in one source

\* values of a dictionary: a string, or a reference to an object of the heap
Str(text) == [str |-> text]
Ref(addr) == [ref |-> addr]

\* objects of the heap: a dictionary, or a string
DictObject(items) == [kind |-> "dict", items |-> items]
StrObject(text) == [kind |-> "str", items |-> Put(EmptyMap, "value", Str(text))]

\* the cards of a source: a dictionary with a nested fields dictionary, a
\* dictionary without one, and an element that is no dictionary
CardKinds == {"fielded", "plain", "text"}

\* the sources of a call: up to `most` lists of cards
MergeSources(most) == SeqsOf(SeqsOf(CardKinds, 0, MaxPerSource), 0, most)

\* the kinds of all the cards, source after source
RECURSIVE Flat(_)
Flat(sources) == IF sources = <<>> THEN <<>> ELSE Head(sources) \o Flat(Tail(sources))

\* the number of cards before source k
RECURSIVE Offset(_, _)
Offset(sources, k) == IF k <= 1 THEN 0 ELSE Offset(sources, k - 1) + Len(sources[k - 1])

\* the heap that holds the cards of the sources: card j at address j, its
\* fields dictionary, or an unused string, at the address after the n cards
CardObject(kind, fields_addr) ==
    CASE kind = "fielded" ->
             DictObject([key \in {"front", "deck", "fields"} |->
                            CASE key = "front" -> Str("q")
                              [] key = "deck" -> Str("D")
                              [] key = "fields" -> Ref(fields_addr)])
      [] kind = "plain" ->
             DictObject([key \in {"front", "deck"} |->
                            IF key = "front" THEN Str("q") ELSE Str("D")])
      [] kind = "text" -> StrObject("q")

FieldsObject(kind) ==
    IF kind = "fielded"
    THEN DictObject([key \in {"Front", "Deck"} |->
                        IF key = "Front" THEN Str("q") ELSE Str("D")])
    ELSE StrObject("")

HeapOf(sources) ==
    [a \in 1..(2 * Len(Flat(sources))) |->
        IF a <= Len(Flat(sources))
        THEN CardObject(Flat(sources)[a], Len(Flat(sources)) + a)
        ELSE FieldsObject(Flat(sources)[a - Len(Flat(sources))])]

\* the argument card_sources: per source, the addresses of its cards
AddressesOf(sources) ==
    [k \in 1..Len(sources) |-> [c \in 1..Len(sources[k]) |-> Offset(sources, k) + c]]

MrgInit ==
    /\ m_pc = "idle"
    /\ m_heap = <<>>
    /\ m_before = <<>>
    /\ m_sources = <<>>
    /\ m_deck_name = ""
    /\ m_merged = <<>>

\* dict[key] = value on the dictionary at an address
SetItem(heap, addr, key, value) ==
    [heap EXCEPT ![addr] = DictObject(Put(heap[addr].items, key, value))]

\* merged_card['model'] = merged_card['modelName'] = template_name, when one
\* is given
WithModel(heap, addr, template_name) ==
    IF template_name = <<>> THEN heap
    ELSE SetItem(SetItem(heap, addr, "model", Str(template_name[1])),
                 addr, "modelName", Str(template_name[1]))

\* merged_card['fields']['Deck'] = merged_deck_name, when merged_card has a
\* fields entry that is a dictionary: the entry is a reference, and the
\* dictionary it refers to is the one that is written
WithFieldsDeck(heap, addr, merged_deck_name) ==
    IF /\ "fields" \in DOMAIN heap[addr].items
       /\ heap[heap[addr].items["fields"].ref].kind = "dict"
    THEN SetItem(heap, heap[addr].items["fields"].ref, "Deck", Str(merged_deck_name))
    ELSE heap

\* card.copy(): a new dictionary at the end of the heap with the items of
\* the card, references included
CopyOf(heap, card) == Append(heap, heap[card])

\* the body of the inner loop for one card: the heap it leaves, and the
\* cards it appends to merged_cards
MergeCard(heap, card, merged_deck_name, template_name) ==
    IF heap[card].kind # "dict" THEN [heap |-> heap, merged |-> <<>>]
    ELSE [heap |-> WithFieldsDeck(
                       WithModel(
                           SetItem(SetItem(CopyOf(heap, card), Len(CopyOf(heap, card)),
                                           "deck", Str(merged_deck_name)),
                                   Len(CopyOf(heap, card)), "deckName",
                                   Str(merged_deck_name)),
                           Len(CopyOf(heap, card)), template_name),
                       Len(CopyOf(heap, card)), merged_deck_name),
          merged |-> <<Len(CopyOf(heap, card))>>]

\* the two loops, over the cards of all the sources in order
RECURSIVE MergeLoop(_, _, _, _, _)
MergeLoop(heap, merged, cards, merged_deck_name, template_name) ==
    IF cards = <<>> THEN [heap |-> heap, merged |-> merged]
    ELSE MergeLoop(MergeCard(heap, Head(cards), merged_deck_name, template_name).heap,
                   merged \o MergeCard(heap, Head(cards), merged_deck_name,
                                       template_name).merged,
                   Tail(cards), merged_deck_name, template_name)

\* one merge_card_data call
MergeCardData ==
    /\ m_pc = "idle"
    /\ \E sources \in MergeSources(MaxSources), template_name \in {<<>>, <<"Quizify">>} :
           \E r \in {MergeLoop(HeapOf(sources), <<>>, Flat(AddressesOf(sources)), "M",
                               template_name)} :
               /\ m_before' = HeapOf(sources)
               /\ m_sources' = AddressesOf(sources)
               /\ m_heap' = r.heap
               /\ m_merged' = r.merged
    /\ m_deck_name' = "M"
    /\ m_pc' = "returned"

\* the addresses of the cards handed in
InputCards == Range(Flat(m_sources))

\* C26. Merge leaves its inputs unchanged: merge_card_data works on copies of
\* the source cards, so after it returns every card dictionary of the input
\* sources, its nested fields mapping included, is as it was before the call,
\* while every returned card has deck and deckName equal to the merged deck
\* name and the number of returned cards is the number of dictionary cards
\* over all the sources.
C26_MergeLeavesInputs ==
    m_pc = "returned" =>
        /\ \A a \in InputCards :
               /\ m_heap[a] = m_before[a]
               /\ "fields" \in DOMAIN m_before[a].items =>
                      m_heap[m_before[a].items["fields"].ref] =
                          m_before[m_before[a].items["fields"].ref]
        /\ \A k \in DOMAIN m_merged :
               /\ m_heap[m_merged[k]].items["deck"] = Str(m_deck_name)
               /\ m_heap[m_merged[k]].items["deckName"] = Str(m_deck_name)
        /\ Len(m_merged) = Cardinality({a \in InputCards : m_before[a].kind = "dict"})

-----------------------------------------------------------------------------
(* The header of the tabular dump                                           *)

\* the tabular dumps the call has written for a list that is not empty
WrittenTables ==
    {e_files[k].content.rows : k \in {x \in DOMAIN e_files :
                                        e_files[x].format = "csv" /\ e_cards # <<>>}}

\* the row of sorted field names: the row after the directives
HeaderOf(rows) == rows[2]

\* C27. Tags-column directive agrees with the header: for every set of
\* records the generator can produce (plain, quiz, legacy-cloze and
\* enhanced-cloze field shapes), the Tags field is the 4th column of the
\* sorted field-name header of the tabular dump, as the directive
\* '#tags column:4' declares.
C27_TagsColumn ==
    \A rows \in WrittenTables :
        /\ "#tags column:4" \in Range(rows[1])
        /\ Len(HeaderOf(rows)) >= 4
        /\ HeaderOf(rows)[4] = "Tags"

-----------------------------------------------------------------------------
(* LLMClient.generate_structured (src/src/core/llm_client.py): the          *)
(* completion request is the one suspension point, so a request and its     *)
(* answer are two steps.                                                    *)

MaxCalls == 2       \* most generate_structured calls in one behaviour

\* attempts = 2
Attempts == 2

\* what a completion request comes back with: it raises, or it returns a
\* message whose content is None (<<>>) or a text (<<text>>); json tells
\* whether json.loads accepts the text as it is ("direct"), only after
\* _extract_json_block ("extracted"), or not at all ("fails")
Completion(content, json) == [raised |-> FALSE, content |-> content, json |-> json]

\* one character for the three grave accents of a code fence
Fence == "~"

Completions ==
    { [raised |-> TRUE, content |-> <<>>, json |-> "fails"],
      Completion(<<>>, "fails"),
      Completion(<<<<>>>>, "fails"),
      Completion(<<<<" ", LF>>>>, "fails"),
      Completion(<<<<"{", "}">>>>, "direct"),
      Completion(<<<<Fence, LF, "{", "}", LF, Fence>>>>, "extracted"),
      Completion(<<<<"x">>>>, "fails") }

\* response.choices[0].message.content or ""
RawOf(response) == IF response.content = <<>> THEN <<>> ELSE response.content[1]

LlmInit ==
    /\ l_pc = "idle"
    /\ l_i = 0
    /\ l_sent = 0
    /\ l_log = <<>>
    /\ l_result = ""
    /\ l_calls = <<>>

\* where the call stands after an answer
Step(pc, i, result) == [pc |-> pc, i |-> i, result |-> result]

\* a client that also asks again when the answer does not parse
AfterResponse_RetriesParse(i, response) ==
    IF response.raised THEN Step("raised", i, "APIError")
    ELSE IF Strip(RawOf(response)) # <<>> /\ response.json # "fails"
    THEN Step("returned", i, "object")
    ELSE IF i + 1 < Attempts THEN Step("request", i + 1, "")
    ELSE IF Strip(RawOf(response)) # <<>> THEN Step("raised", i, "JSONDecodeError")
    ELSE Step("raised", i, "EmptyResponse")

\* the rest of the loop body after the await in attempt i, and what follows
\* the loop when it is left: a request that raised leaves the call; a
\* content that is not blank leaves the loop and is parsed; a blank content
\* goes to the next attempt, and raises ValueError after the last one
AfterResponse(i, response) ==
    IF response.raised THEN Step("raised", i, "APIError")
    ELSE IF Strip(RawOf(response)) # <<>>
    THEN IF response.json = "fails" THEN Step("raised", i, "JSONDecodeError")
         ELSE Step("returned", i, "object")
    ELSE IF i + 1 < Attempts THEN Step("request", i + 1, "")
    ELSE Step("raised", i, "EmptyResponse")

\* a generate_structured call begins
StructuredStart ==
    /\ l_pc \in {"idle", "returned", "raised"}
    /\ Len(l_calls) < MaxCalls
    /\ l_pc' = "request"
    /\ l_i' = 0
    /\ l_sent' = 0
    /\ l_log' = <<>>
    /\ l_result' = ""
    /\ UNCHANGED l_calls

\* await self.client.chat.completions.create(...): the request is issued
CompletionRequest ==
    /\ l_pc = "request"
    /\ l_pc' = "awaiting"
    /\ l_sent' = l_sent + 1
    /\ UNCHANGED <<l_i, l_log, l_result, l_calls>>

\* the request returns or raises, and the call goes on from there
CompletionAnswer ==
    /\ l_pc = "awaiting"
    /\ \E response \in Completions :
           \E next \in {AfterResponse(l_i, response)} :
               /\ l_log' = Append(l_log, response)
               /\ l_pc' = next.pc
               /\ l_i' = next.i
               /\ l_result' = next.result
               /\ l_calls' = IF next.pc = "request" THEN l_calls
                             ELSE Append(l_calls, next.result)
    /\ UNCHANGED l_sent

\* the answer was blank: None, empty or whitespace only
Blank(response) == ~response.raised /\ Strip(RawOf(response)) = <<>>

\* the requests of the call so far are bounded, and each but the first
\* follows a blank answer; nothing follows a request that raised or an
\* answer that did not parse; the call ends with an object or an error
BoundedRetry ==
    /\ l_sent <= 2
    /\ Len(l_log) <= l_sent
    /\ l_sent <= Len(l_log) + 1
    /\ \A k \in DOMAIN l_log : k < l_sent => Blank(l_log[k])
    /\ l_pc = "returned" => /\ l_result = "object"
                            /\ l_sent = Len(l_log)
                            /\ ~Blank(l_log[Len(l_log)])
                            /\ l_log[Len(l_log)].json # "fails"
    /\ l_pc = "raised" =>
           /\ l_sent = Len(l_log)
           /\ l_result \in {"APIError", "JSONDecodeError", "EmptyResponse"}
           /\ l_result = "EmptyResponse" <=>
                  (Len(l_log) = 2 /\ \A k \in DOMAIN l_log : Blank(l_log[k]))

\* C28. Bounded collaborator retry: one generate_structured call issues at
\* most two completion requests, the second only when the first returned
\* empty or whitespace-only content; it raises when both responses are
\* empty, never issues another request after a request raised or after the
\* response failed to parse as JSON, and always terminates with either a
\* parsed object or an error.
C28_BoundedRetry ==
    /\ []BoundedRetry
    /\ (l_pc \in {"request", "awaiting"}) ~> (l_pc \in {"returned", "raised"})

\* a call that asked twice, got two blank answers and raised, after a call
\* that returned an object
C28_Witness ==
    /\ l_pc = "raised"
    /\ l_sent = 2
    /\ l_result = "EmptyResponse"
    /\ l_calls = <<"object", "EmptyResponse">>

-----------------------------------------------------------------------------
(* Two export calls on one UnifiedExporter that run _get_deck_id at the     *)
(* same time: the membership test, the item assignment and the item read    *)
(* of lines 551-554 are three steps of a call, and the steps of the two     *)
(* calls interleave freely.                                                 *)

MaxDecks == 2       \* most decks among the cards of one call

DeckTexts == {<<"D">>, <<"E">>, <<"K">>}

\* the keys of deck_groups of one call: distinct deck names, in card order
DeckSeqs ==
    {s \in SeqsOf(DeckTexts, 1, MaxDecks) :
        \A i, j \in DOMAIN s : i # j => s[i] # s[j]}

\* a cache that earlier calls on the instance have filled for `names`
CacheOf(names) == [n \in names |-> _get_deck_id(EmptyMap, n).id]

RaceCalls == {1, 2}

RcInit ==
    /\ rc_pc = <<"idle", "idle">>
    /\ rc_k = <<1, 1>>
    /\ rc_decks = <<<<>>, <<>>>>
    /\ rc_got = <<<<>>, <<>>>>
    /\ rc_ids = EmptyMap
    /\ rc_before = EmptyMap
    /\ rc_stores = 0

\* both calls have grouped their cards and come to the loop over deck_groups
RaceStart ==
    /\ rc_pc = <<"idle", "idle">>
    /\ \E names \in SUBSET DeckTexts, first \in DeckSeqs, second \in DeckSeqs :
           /\ rc_ids' = CacheOf(names)
           /\ rc_before' = CacheOf(names)
           /\ rc_decks' = <<first, second>>
    /\ rc_pc' = <<"check", "check">>
    /\ UNCHANGED <<rc_k, rc_got, rc_stores>>

\* an item assignment that starts the cache afresh
Stored_KeepsLatest(ids, deck_name) == Put(EmptyMap, deck_name, HashId(deck_name))

\* self.deck_ids[deck_name] = int(hash_obj.hexdigest()[:8], 16)
Stored(ids, deck_name) == Put(ids, deck_name, HashId(deck_name))

\* `if deck_name not in self.deck_ids` in call c
RaceCheck(c) ==
    /\ rc_pc[c] = "check"
    /\ rc_pc' = [rc_pc EXCEPT ![c] =
                    IF rc_decks[c][rc_k[c]] \notin DOMAIN rc_ids THEN "store" ELSE "read"]
    /\ UNCHANGED <<rc_k, rc_decks, rc_got, rc_ids, rc_before, rc_stores>>

\* the assignment of line 553 in call c
RaceStore(c) ==
    /\ rc_pc[c] = "store"
    /\ rc_ids' = Stored(rc_ids, rc_decks[c][rc_k[c]])
    /\ rc_pc' = [rc_pc EXCEPT ![c] = "read"]
    /\ rc_stores' = rc_stores + 1
    /\ UNCHANGED <<rc_k, rc_decks, rc_got, rc_before>>

\* `return self.deck_ids[deck_name]` in call c, which raises KeyError for a
\* missing name; the call then goes to its next deck
RaceRead(c) ==
    /\ rc_pc[c] = "read"
    /\ rc_got' = [rc_got EXCEPT ![c] =
                     Append(@, IF rc_decks[c][rc_k[c]] \in DOMAIN rc_ids
                               THEN <<rc_ids[rc_decks[c][rc_k[c]]]>> ELSE <<>>)]
    /\ IF rc_decks[c][rc_k[c]] \in DOMAIN rc_ids /\ rc_k[c] < Len(rc_decks[c])
       THEN /\ rc_k' = [rc_k EXCEPT ![c] = @ + 1]
            /\ rc_pc' = [rc_pc EXCEPT ![c] = "check"]
       ELSE /\ rc_pc' = [rc_pc EXCEPT ![c] = "done"]
            /\ UNCHANGED rc_k
    /\ UNCHANGED <<rc_decks, rc_ids, rc_before, rc_stores>>

RaceStep == \E c \in RaceCalls : RaceCheck(c) \/ RaceStore(c) \/ RaceRead(c)

\* the cache after _get_deck_id for each name of `names` in turn
RECURSIVE CacheAfter(_, _)
CacheAfter(ids, names) ==
    IF names = <<>> THEN ids
    ELSE CacheAfter(_get_deck_id(ids, Head(names)).deck_ids, Tail(names))

\* the cache when the one call runs wholly before the other
SequentialCache(first, second) ==
    CacheAfter(CacheAfter(rc_before, rc_decks[first]), rc_decks[second])

\* every entry is the id a fresh exporter derives, every call was handed
\* that id for each of its decks, and after both calls the cache is the one
\* of either sequential order
RaceBenign ==
    /\ \A n \in DOMAIN rc_ids : rc_ids[n] = _get_deck_id(EmptyMap, n).id
    /\ \A n \in DOMAIN rc_before : n \in DOMAIN rc_ids
    /\ \A c \in RaceCalls : \A k \in DOMAIN rc_got[c] :
           rc_got[c][k] = <<_get_deck_id(EmptyMap, rc_decks[c][k]).id>>
    /\ rc_pc = <<"done", "done">> =>
           /\ rc_ids = SequentialCache(1, 2)
           /\ rc_ids = SequentialCache(2, 1)
           /\ \A c \in RaceCalls : Len(rc_got[c]) = Len(rc_decks[c])

\* C29. Benign deck-cache race: under any interleaving of two export calls
\* on the same exporter instance, the unsynchronised check-then-insert on
\* the deck-id cache never leaves one deck name with two different ids and
\* never loses an entry; the final cache equals the cache of a sequential
\* execution, and each id equals the one a fresh exporter instance derives
\* for that name.
C29_BenignCacheRace ==
    /\ []RaceBenign
    /\ [][\A n \in DOMAIN rc_ids :
              n \in DOMAIN rc_ids' /\ rc_ids'[n] = rc_ids[n]]_vars

\* both calls found the same deck missing before either stored it, both
\* stored it, and both are done
C29_Witness ==
    /\ rc_pc = <<"done", "done">>
    /\ rc_decks = <<<<<<"D">>>>, <<<<"D">>>>>>
    /\ rc_before = EmptyMap
    /\ rc_stores = 2

-----------------------------------------------------------------------------
(* Two export_multiple_formats calls that write into one output directory.  *)
(* A method of FORMAT_METHODS opens its file for writing, which empties a   *)
(* file that is there, writes and closes it; that is one step here, and the *)
(* steps of the two calls interleave.                                       *)

MaxWrites == 1      \* most formats in the request of one of the two calls

WriteFormats == SeqsOf({"json", "apkg"}, 1, MaxWrites)

ExportCalls == {1, 2}

\* a call that has not begun
NoCall ==
    [pc |-> "idle", cards |-> <<>>, formats |-> <<>>, timestamp |-> <<>>, i |-> 1,
     deck_ids |-> EmptyMap, cache |-> EmptyMap]

XcInit ==
    /\ x_now = ClockStart
    /\ x_call = <<NoCall, NoCall>>
    /\ disk = EmptyMap
    /\ x_log = <<>>

\* open(path, 'x'): a file that is there is left as it is
Written_KeepsFirst(files, path, content, by) ==
    IF path \in DOMAIN files THEN files
    ELSE Put(files, path, [content |-> content, by |-> by])

\* the output directory after open(path, 'w'), the writing and the close of
\* call `by`
Written(files, path, content, by) == Put(files, path, [content |-> content, by |-> by])

\* the directory after the files of one attempt
RECURSIVE WrittenAll(_, _, _)
WrittenAll(files, written, by) ==
    IF written = <<>> THEN files
    ELSE WrittenAll(Written(files, OutputPath(Head(written).name), Head(written).content, by),
                    Tail(written), by)

\* call c begins: the arguments, and the timestamp read from the clock
CallStart(c) ==
    /\ x_call[c].pc = "idle"
    /\ \E cards \in ExportBatches, formats \in WriteFormats :
           x_call' = [x_call EXCEPT ![c] =
                         [NoCall EXCEPT !.pc = "loop", !.cards = cards, !.formats = formats,
                                        !.timestamp = strftime(x_now)]]
    /\ UNCHANGED <<x_now, disk, x_log>>

\* The attempt of call c for its next format
CallAttempt(c, raises) ==
    ExportAttempt(x_call[c].formats[x_call[c].i], x_call[c].deck_ids, x_call[c].cache,
                  x_call[c].cards, OriginalContentOf(x_call[c].cards), <<>>,
                  x_call[c].timestamp, x_now, raises)

\* one iteration of the loop over the formats in call c
CallFormat(c) ==
    /\ x_call[c].pc = "loop"
    /\ x_call[c].i <= Len(x_call[c].formats)
    /\ \E raises \in BOOLEAN :
           \E attempt \in {CallAttempt(c, raises)} :
               /\ disk' = WrittenAll(disk, attempt.files, c)
               /\ x_log' = x_log \o [k \in 1..Len(attempt.files) |->
                                        [by |-> c, path |-> OutputPath(attempt.files[k].name),
                                         format |-> attempt.files[k].format,
                                         content |-> attempt.files[k].content]]
               /\ x_call' = [x_call EXCEPT ![c].i = @ + 1,
                                           ![c].deck_ids = attempt.deck_ids,
                                           ![c].cache = attempt.cache]
    /\ UNCHANGED x_now

\* call c returns export_paths
CallReturn(c) ==
    /\ x_call[c].pc = "loop"
    /\ x_call[c].i > Len(x_call[c].formats)
    /\ x_call' = [x_call EXCEPT ![c].pc = "returned"]
    /\ UNCHANGED <<x_now, disk, x_log>>

\* a second passes
ClockTick ==
    /\ SecondsOfDay(x_now) - SecondsOfDay(ClockStart) < MaxTicks
    /\ x_now' = NextSecond(x_now)
    /\ UNCHANGED <<x_call, disk, x_log>>

TwoCalls == \E c \in ExportCalls : CallStart(c) \/ CallFormat(c) \/ CallReturn(c)

\* output directory, timestamp and format put together
PathOf(timestamp, format) ==
    <<"o", "u", "t", "p", "u", "t", "/">> \o FilePrefix \o timestamp \o <<".">>
    \o NameChars(format)

\* the last write to `path`
LastWrite(path) ==
    x_log[CHOOSE k \in DOMAIN x_log :
              /\ x_log[k].path = path
              /\ \A j \in DOMAIN x_log : x_log[j].path = path => j <= k]

\* what a call with the arguments of call c writes in the given format when
\* it is the only call there is
WrittenAlone(c, format) ==
    ExportAttempt(format, EmptyMap, EmptyMap, x_call[c].cards,
                  OriginalContentOf(x_call[c].cards), <<>>, x_call[c].timestamp,
                  ClockStart, FALSE).files[1].content

BothReturned == \A c \in ExportCalls : x_call[c].pc = "returned"

-----------------------------------------------------------------------------
(* Specifications.  Each one runs one part of the pipeline and holds the    *)
(* variables of the other parts at rest.                                    *)

RegIdle == templates = EmptyMap
BfIdle  == built = <<>>
SynIdle == synth = <<>>
BatIdle == BatInit
ExpIdle == ExpInit /\ has_tm
EmfIdle == EmfInit
SrcIdle == SrcInit
SeqIdle == SeqInit
OutIdle == OutInit
NlIdle == NlInit
MrgIdle == MrgInit
LlmIdle == LlmInit
RcIdle == RcInit
XcIdle == XcInit
FinalIdle == NlIdle /\ MrgIdle /\ LlmIdle /\ RcIdle /\ XcIdle
RestNlIdle == SrcIdle /\ SeqIdle /\ OutIdle /\ MrgIdle /\ LlmIdle /\ RcIdle /\ XcIdle
RestMrgIdle == SrcIdle /\ SeqIdle /\ OutIdle /\ NlIdle /\ LlmIdle /\ RcIdle /\ XcIdle
RestLlmIdle == SrcIdle /\ SeqIdle /\ OutIdle /\ NlIdle /\ MrgIdle /\ RcIdle /\ XcIdle
RestRcIdle == SrcIdle /\ SeqIdle /\ OutIdle /\ NlIdle /\ MrgIdle /\ LlmIdle /\ XcIdle
RestXcIdle == SrcIdle /\ SeqIdle /\ OutIdle /\ NlIdle /\ MrgIdle /\ LlmIdle /\ RcIdle
LaterIdle == SrcIdle /\ SeqIdle /\ OutIdle /\ FinalIdle

\* the cloze rewriter
SpecClozeInit == CzInit /\ RegIdle /\ BfIdle /\ SynIdle /\ BatIdle /\ ExpIdle /\ EmfIdle
    /\ LaterIdle
SpecClozeNext ==
    ProcessClozeContent /\ UNCHANGED <<regVars, bfVars, synVars, batVars, expVars, emfVars, laterVars>>
SpecCloze == SpecClozeInit /\ [][SpecClozeNext]_vars

\* the registry and the field builder
SpecFieldsInit == RegInit /\ BfInit /\ CzIdle /\ SynIdle /\ BatIdle /\ ExpIdle /\ EmfIdle
    /\ LaterIdle
SpecFieldsNext ==
    \/ CreateCustomTemplate /\ UNCHANGED <<bfVars, czVars, synVars, batVars, expVars, emfVars, laterVars>>
    \/ ImportTemplate /\ UNCHANGED <<bfVars, czVars, synVars, batVars, expVars, emfVars, laterVars>>
    \/ BuildFields /\ UNCHANGED <<regVars, czVars, synVars, batVars, expVars, emfVars, laterVars>>
SpecFields == SpecFieldsInit /\ [][SpecFieldsNext]_vars

\* the registry and single generate_cards calls
SpecSynthInit == RegInit /\ SynInit /\ BfIdle /\ CzIdle /\ BatIdle /\ ExpIdle /\ EmfIdle
    /\ LaterIdle
SpecSynthNext ==
    \/ synth = <<>> /\ CreateCustomTemplate
           /\ UNCHANGED <<synVars, bfVars, czVars, batVars, expVars, emfVars, laterVars>>
    \/ Synthesize /\ UNCHANGED <<regVars, bfVars, czVars, batVars, expVars, emfVars, laterVars>>
SpecSynth == SpecSynthInit /\ [][SpecSynthNext]_vars

\* the batch driver over the generator
SpecBatchInit == RegInit /\ BatInit /\ SynIdle /\ BfIdle /\ CzIdle /\ ExpIdle /\ EmfIdle
    /\ LaterIdle
SpecBatchNext ==
    \/ BatchStart /\ UNCHANGED <<regVars, synVars, bfVars, czVars, expVars, emfVars, laterVars>>
    \/ BatchChunk /\ UNCHANGED <<regVars, synVars, bfVars, czVars, expVars, emfVars, laterVars>>
    \/ BatchReturn /\ UNCHANGED <<regVars, synVars, bfVars, czVars, expVars, emfVars, laterVars>>
SpecBatch == SpecBatchInit /\ [][SpecBatchNext]_vars

\* one exporter instance in an installation with both built-in templates:
\* package exports, and registrations that replace a registered template
SpecApkgInit ==
    /\ RegInit /\ DOMAIN templates = {"Quizify", "Enhanced Cloze"}
    /\ ExpInit /\ EmfIdle /\ BfIdle /\ CzIdle /\ SynIdle /\ BatIdle /\ LaterIdle
SpecApkgNext ==
    \/ ExportToApkg /\ UNCHANGED <<regVars, emfVars, bfVars, czVars, synVars, batVars, laterVars>>
    \/ CreateCustomTemplate /\ DOMAIN templates' = DOMAIN templates
           /\ UNCHANGED <<expVars, emfVars, bfVars, czVars, synVars, batVars, laterVars>>
SpecApkg == SpecApkgInit /\ [][SpecApkgNext]_vars

\* the same instance: direct identifier lookups, with exports and
\* registrations between them
SpecIdsNext ==
    \/ GetModelId /\ UNCHANGED <<regVars, emfVars, bfVars, czVars, synVars, batVars, laterVars>>
    \/ ExportOneToApkg /\ UNCHANGED <<regVars, emfVars, bfVars, czVars, synVars, batVars, laterVars>>
    \/ CreateCustomTemplate /\ DOMAIN templates' = DOMAIN templates
           /\ UNCHANGED <<expVars, emfVars, bfVars, czVars, synVars, batVars, laterVars>>
SpecIds == SpecApkgInit /\ [][SpecIdsNext]_vars

\* one export_multiple_formats call on a new exporter that was given the
\* template manager, as the application builds it, and the clock
SpecExportInit ==
    /\ RegInit /\ DOMAIN templates = {"Quizify", "Enhanced Cloze"}
    /\ ExpInit /\ has_tm /\ EmfInit /\ BfIdle /\ CzIdle /\ SynIdle /\ BatIdle /\ LaterIdle
SpecExportNext ==
    \/ ExportStart /\ UNCHANGED <<regVars, bfVars, czVars, synVars, batVars, laterVars>>
    \/ ExportFormat /\ UNCHANGED <<regVars, bfVars, czVars, synVars, batVars, laterVars>>
    \/ ExportReturn /\ UNCHANGED <<regVars, bfVars, czVars, synVars, batVars, laterVars>>
    \/ Tick /\ UNCHANGED <<regVars, bfVars, czVars, synVars, batVars, laterVars>>
SpecExport == SpecExportInit /\ [][SpecExportNext]_vars

\* generate_from_file over generate_batch, on the generator of the pipeline
\* or on one that answers with other lists
SpecSourceInit ==
    /\ RegInit /\ BatInit /\ SrcInit /\ SynIdle /\ BfIdle /\ CzIdle /\ ExpIdle /\ EmfIdle
    /\ SeqIdle /\ OutIdle /\ FinalIdle
SpecSourceNext ==
    \/ SourceStart /\ UNCHANGED <<regVars, synVars, bfVars, czVars, expVars, emfVars, seqVars, outVars, finalVars>>
    \/ BatchChunk /\ UNCHANGED <<regVars, synVars, bfVars, czVars, expVars, emfVars, srcVars, seqVars, outVars, finalVars>>
    \/ BatchChunkForeign
           /\ UNCHANGED <<regVars, synVars, bfVars, czVars, expVars, emfVars, srcVars, seqVars, outVars, finalVars>>
    \/ BatchReturn /\ UNCHANGED <<regVars, synVars, bfVars, czVars, expVars, emfVars, srcVars, seqVars, outVars, finalVars>>
    \/ SourceEnd /\ UNCHANGED <<regVars, synVars, bfVars, czVars, expVars, emfVars, batVars, seqVars, outVars, finalVars>>
SpecSource == SpecSourceInit /\ [][SpecSourceNext]_vars

\* generate_batch call by call; a call that was started is answered (the
\* collaborator returns or raises) and the coroutine is resumed
SpecSeqInit ==
    /\ RegInit /\ BatInit /\ SeqInit /\ SrcIdle /\ SynIdle /\ BfIdle /\ CzIdle /\ ExpIdle
    /\ EmfIdle /\ OutIdle /\ FinalIdle
SeqLoop ==
    \/ ChunkCall /\ UNCHANGED <<regVars, synVars, bfVars, czVars, expVars, emfVars, srcVars, outVars, finalVars>>
    \/ ChunkAnswer /\ UNCHANGED <<regVars, synVars, bfVars, czVars, expVars, emfVars, srcVars, outVars, finalVars>>
    \/ BatchReturn
           /\ UNCHANGED <<regVars, synVars, bfVars, czVars, expVars, emfVars, srcVars, seqVars, outVars, finalVars>>
SpecSeqNext ==
    \/ BatchStart
           /\ UNCHANGED <<regVars, synVars, bfVars, czVars, expVars, emfVars, srcVars, seqVars, outVars, finalVars>>
    \/ SeqLoop
SpecSeq == SpecSeqInit /\ [][SpecSeqNext]_vars /\ WF_vars(SeqLoop)

\* summaries asked of an exporter between its package exports
SpecSummaryNext ==
    \/ GetExportSummary
           /\ UNCHANGED <<regVars, emfVars, bfVars, czVars, synVars, batVars, srcVars, seqVars, finalVars>>
    \/ ExportOneToApkg /\ UNCHANGED <<regVars, emfVars, bfVars, czVars, synVars, batVars, laterVars>>
SpecSummary == SpecApkgInit /\ [][SpecSummaryNext]_vars

\* direct export_to_json calls on an exporter, beside the clock
SpecJsonNext ==
    \/ ExportToJson
           /\ UNCHANGED <<regVars, emfVars, bfVars, czVars, synVars, batVars, srcVars, seqVars, finalVars>>
    \/ Tick /\ UNCHANGED <<regVars, bfVars, czVars, synVars, batVars, laterVars>>
SpecJson == SpecApkgInit /\ [][SpecJsonNext]_vars

\* the cloze rewriter on spans numbered as they come
SpecOrderInit == OrderInit /\ RegIdle /\ BfIdle /\ SynIdle /\ BatIdle /\ ExpIdle /\ EmfIdle
    /\ LaterIdle
SpecOrder == SpecOrderInit /\ [][SpecClozeNext]_vars

\* values normalized on their own, and packaged in a note, on an exporter
\* with or without the template manager
SpecNewlinesNext ==
    \/ NormalizeNewlines
           /\ UNCHANGED <<regVars, expVars, emfVars, bfVars, czVars, synVars, batVars, restNl>>
    \/ ExportNormalized
           /\ UNCHANGED <<regVars, emfVars, bfVars, czVars, synVars, batVars, laterVars>>
SpecNewlines == SpecApkgInit /\ [][SpecNewlinesNext]_vars

\* one merge of card sources
SpecMergeInit ==
    /\ MrgInit /\ RegIdle /\ BfIdle /\ CzIdle /\ SynIdle /\ BatIdle /\ ExpIdle /\ EmfIdle
    /\ RestMrgIdle
SpecMergeNext ==
    MergeCardData
        /\ UNCHANGED <<regVars, expVars, emfVars, bfVars, czVars, synVars, batVars, restMrg>>
SpecMerge == SpecMergeInit /\ [][SpecMergeNext]_vars

\* generate_structured calls, one after the other; a request that was issued
\* returns or raises (it carries a timeout) and the coroutine is resumed
SpecLlmInit ==
    /\ LlmInit /\ RegIdle /\ BfIdle /\ CzIdle /\ SynIdle /\ BatIdle /\ ExpIdle /\ EmfIdle
    /\ RestLlmIdle
LlmProgress ==
    \/ CompletionRequest
           /\ UNCHANGED <<regVars, expVars, emfVars, bfVars, czVars, synVars, batVars, restLlm>>
    \/ CompletionAnswer
           /\ UNCHANGED <<regVars, expVars, emfVars, bfVars, czVars, synVars, batVars, restLlm>>
SpecLlmNext ==
    \/ StructuredStart
           /\ UNCHANGED <<regVars, expVars, emfVars, bfVars, czVars, synVars, batVars, restLlm>>
    \/ LlmProgress
SpecLlm == SpecLlmInit /\ [][SpecLlmNext]_vars /\ WF_vars(LlmProgress)

\* two export calls of one instance, interleaved step by step
SpecRaceInit ==
    /\ RcInit /\ RegIdle /\ BfIdle /\ CzIdle /\ SynIdle /\ BatIdle /\ ExpIdle /\ EmfIdle
    /\ RestRcIdle
SpecRaceNext ==
    \/ RaceStart
           /\ UNCHANGED <<regVars, expVars, emfVars, bfVars, czVars, synVars, batVars, restRc>>
    \/ RaceStep
           /\ UNCHANGED <<regVars, expVars, emfVars, bfVars, czVars, synVars, batVars, restRc>>
SpecRace == SpecRaceInit /\ [][SpecRaceNext]_vars

\* two export_multiple_formats calls and the clock
SpecCollisionInit ==
    /\ XcInit /\ RegIdle /\ BfIdle /\ CzIdle /\ SynIdle /\ BatIdle /\ ExpIdle /\ EmfIdle
    /\ RestXcIdle
SpecCollisionNext ==
    \/ TwoCalls
           /\ UNCHANGED <<regVars, expVars, emfVars, bfVars, czVars, synVars, batVars, restXc>>
    \/ ClockTick
           /\ UNCHANGED <<regVars, expVars, emfVars, bfVars, czVars, synVars, batVars, restXc>>
SpecCollision == SpecCollisionInit /\ [][SpecCollisionNext]_vars

====
